---- MODULE Spec2Model ----
(***************************************************************************)
(* koan: the readers (OnceReader, AsyncReader), the two parallel runners   *)
(* (parallel_for, parallel_for_partitioned), the batch loop of main() and  *)
(* the CBOW update kernel, modelled as state machines.                     *)
(***************************************************************************)
EXTENDS Integers, Sequences, FiniteSets, TLC

\* ------------------------------------------------------------------ bounds
MaxFiles == 2      \* files in fnames_
MaxLines == 2      \* lines per file
MaxBuffer == 2     \* buffer_size_ ranges over 1..MaxBuffer
MaxCalls == 7      \* get_next calls the reader harness makes
MaxThreads == 2    \* num_threads ranges over 1..MaxThreads
MaxEpochs == 2     \* epochs ranges over 1..MaxEpochs
MaxBatch == 3      \* batch sizes the runner harness dispatches
MaxSentences == 3  \* sentences of the corpora the batch loop is run on
VocabSize == 3     \* words of the vocabulary of the update kernel
Dim == 1           \* dimension of the embedding vectors
MaxSentLen == 3    \* length of the sentence passed to cbow_update
MaxNegatives == 2  \* params_.negatives ranges over 0..MaxNegatives
MaxKeys == 3       \* distinct keys offered to an IndexMap
MaxOps == 6        \* operations applied to an IndexMap
MaxClasses == 3    \* length of the probability vector given to an AliasSampler
MaxSamples == 2    \* sample() calls made on one AliasSampler
MaxVocab == 2      \* words of a vocabulary besides UNK
MaxLineLen == 3    \* bytes of a line before its end of line
MaxCtxs == 2       \* params_.ctxs ranges over 1..MaxCtxs
RandRange == 2     \* distinct values a generator is taken to return

\* ------------------------------------------------------------- variables
VARIABLES
  \* reader configuration (Reader::Reader, AsyncReader::AsyncReader)
  fnames_,               \* the corpus: a sequence of files, each a sequence of
                         \* lines, each line the number of pieces gets() cuts it
                         \* into (1: it fits MAX_LINE_LEN; 2: it is over-long)
  buffer_size_,
  read_whole_data,       \* TRUE: OnceReader, FALSE: AsyncReader
  assert_no_long_lines_,
  \* AsyncReader
  in_,                   \* open handle: [path, pos], or Closed
  path_idx_,
  read_buffer_,
  reached_eof_,
  reached_eofs_,
  reached_eofs_prev_,
  reader_,               \* parser thread: "none", "running", "finished", "joined"
  unjoined,              \* parser threads created and not yet joined
  \* OnceReader
  read_,
  fake_reached_eof_,
  \* the caller of get_next
  pc,
  sentences,
  ret,
  \* main() and the parallel runners
  num_threads,
  epochs,
  partitioned,
  shuffle,
  e,
  global_i,
  perm,
  i,                     \* std::atomic<size_t> i of parallel_for
  ti,                    \* loop index of the spawn and join loops
  wpc,                   \* per worker: "none", "fetch", "work", "exit", "joined"
  wi,                    \* per worker: i_ (parallel_for) or i (partitioned)
  wend,                  \* per worker: batch_end (partitioned)
  wtid,                  \* per worker: the ti argument of its call of f
  \* history
  rets,                  \* return values of the get_next calls so far
  passLog,               \* sentences delivered since the last false return
  lastPass,              \* sentences delivered in the latest complete pass
  lastDelivered,         \* the latest call delivered the last line of the pass
  afterLast,             \* the latest call followed the one that did
  calls,                 \* get_next calls made by the harness
  fcalls,                \* per index: calls f(i, .) of the current dispatch
  fby,                   \* per index: the worker ids it was passed to f with
  trained,               \* per sentence: Trainer::train calls in this epoch
  ntrain,                \* Trainer::train calls in total
  \* Trainer and one cbow_update call
  table_,                \* input embeddings, one vector per word
  ctx_,                  \* output embeddings, one vector per word
  use_bad_update,        \* params_.use_bad_update
  negatives,             \* params_.negatives
  sent,                  \* arguments of the call
  center_idx,
  left,
  right,
  lr,
  kpc,                   \* position in cbow_update
  avg,                   \* scratch_[tid]
  source_idx_grad,       \* scratch2_[tid]
  sources,               \* the rows collected, as word ids
  neg_i,                 \* loop index of the negative samples
  table_orig,            \* the tables when the call started
  ctx_orig,
  terms,                 \* the loss terms differentiated so far
  draws,                 \* sampler draws made by the call: word, processed
  \* IndexMap
  k2i_,                  \* key -> index
  i2k_,                  \* index -> key
  inserted,              \* the keys passed to insert since the last clear
  before,                \* <<k2i_, i2k_>> as the latest operation found them
  result,                \* the latest operation and what it returned
  ops,                   \* operations applied so far
  \* AliasSampler
  probs,                 \* the argument of the constructor
  n_,
  alias_,
  prob_,
  scaledProbs,           \* locals of init_alias_table
  small,
  large,
  spc,                   \* position in the constructor
  sampled,               \* the latest sample() call: bucket, r, value returned
  nsamples,              \* sample() calls made so far
  \* main(): the vocabulary; Reader::parseline
  ordered_vocab,
  discard_,
  ntable,                \* table.size() and ctx.size()
  vocab_i,               \* position of the loop over ordered_vocab
  via_readlines,         \* TRUE: OnceReader (readlines), FALSE: AsyncReader
  raw,                   \* the bytes gets() put into the line buffer
  line_arg,              \* the argument `line` of parseline
  words_,
  parsed,                \* the Sentence s of parseline
  word_t,                \* the loop index t of parseline
  ppc,                   \* position in main() and in the reader
  \* Trainer
  gens_,                 \* per thread: the state of its std::mt19937
  neg_samplers_,         \* per thread: the state of rng_ of its AliasSampler
  filter_probs_,
  ctxs,                  \* params_.ctxs
  stream,                \* which function of seed and count the generators are
  busy,                  \* the thread inside Trainer::train, 0 if none
  tpc,                   \* position in Trainer::train
  run,                   \* the training run going on: 1 or 2
  initial,               \* <<table_, ctx_>> as both runs find them
  first,                 \* <<table_, ctx_>> as the first run left them
  updates,               \* the updates the running train call has dispatched
  remaining_toks,        \* what the last train call returned
  freqs,                 \* main: the count of every word
  downsample_th,         \* main: the downsample threshold
  tot,                   \* main: total count of all words
  prob,                  \* main: the vector that becomes filter_probs_
  prob_w,                \* main: index of the loops over prob
  fpc,                   \* main: position in the preparation of prob
  start_lr_schedule_epoch, \* main: option -S
  max_lr_schedule_epochs,  \* main: option -E
  total_sentences,       \* main: the number of sentences it knows of
  init_lr,               \* main: initial learning rate
  min_lr,                \* main: minimum learning rate
  curr_lr,               \* main: the lr of the last call of train
  corpus_sentences,      \* the number of sentences the reader delivers per epoch
  lrs,                   \* the calls of train made: epoch, i + global_i and lr
  lpc,                   \* main: position in the schedule
  cbow,                  \* train: true for the CBOW loss, false for skipgram
  target_idx,            \* sg_update: the context position being predicted
  cw_local,              \* sg_update: the update collected for the center row
  source,                \* per thread: the word whose table row it updates
  grad,                  \* per thread: its source_idx_grad
  fetched,               \* per thread: the row as it read it
  rpc,                   \* per thread: position in `*source -= source_idx_grad`
  overlapped,            \* a thread read a row another had read and not yet written
  stores                 \* the threads in the order of their writes

cfgVars == <<fnames_, buffer_size_, read_whole_data, assert_no_long_lines_,
             num_threads, epochs, partitioned, shuffle>>
asyncVars == <<in_, path_idx_, read_buffer_, reached_eof_, reached_eofs_,
               reached_eofs_prev_, reader_, unjoined>>
onceVars == <<read_, fake_reached_eof_>>
callerVars == <<pc, sentences, ret>>
loopVars == <<e, global_i, perm>>
runVars == <<i, ti, wpc, wi, wend, wtid>>
readerHist == <<rets, passLog, lastPass, lastDelivered, afterLast>>
runHist == <<fcalls, fby, trained, ntrain>>
kernelVars == <<table_, ctx_, use_bad_update, negatives, sent, center_idx,
                left, right, lr, kpc, avg, source_idx_grad, sources, neg_i,
                table_orig, ctx_orig, terms, draws>>
loopAll == <<cfgVars, asyncVars, onceVars, callerVars, loopVars, runVars,
             readerHist, calls, runHist>>
mapVars == <<k2i_, i2k_, inserted, before, result, ops>>
samplerVars == <<probs, n_, alias_, prob_, scaledProbs, small, large, spc,
                 sampled, nsamples>>
parseVars == <<ordered_vocab, discard_, ntable, vocab_i, via_readlines, raw,
               line_arg, words_, parsed, word_t, ppc>>
trainHist == <<updates, remaining_toks>>
trainVars == <<gens_, neg_samplers_, filter_probs_, ctxs, stream, busy, tpc,
               run, initial, first, trainHist>>
probVars == <<freqs, downsample_th, tot, prob, prob_w, fpc>>
lrVars == <<start_lr_schedule_epoch, max_lr_schedule_epochs, total_sentences,
            init_lr, min_lr, curr_lr, corpus_sentences, lrs, lpc>>
sgVars == <<cbow, target_idx, cw_local>>
raceVars == <<source, grad, fetched, rpc, overlapped, stores>>
auxVars == <<probVars, lrVars, sgVars, raceVars>>
extVars == <<parseVars, trainVars, auxVars>>
libVars == <<mapVars, samplerVars, extVars>>
vars == <<loopAll, kernelVars, libVars>>

\* ------------------------------------------------------------ the corpus
Closed == [path |-> -1, pos |-> 0]

\* The pieces gets() returns for file number f (1-based), in order. A line that
\* fits the buffer is read by one gets(); a longer one by several, since
\* fgets(buf, MAX_LINE_LEN, f) returns at most MAX_LINE_LEN - 1 bytes and the
\* next call goes on where it stopped. A piece is
\* <<file, line, piece, ends with newline>>.
RECURSIVE UnitsFrom(_, _, _)
UnitsFrom(f, file, l) ==
  IF l > Len(file) THEN <<>>
  ELSE [k \in 1..file[l] |-> <<f, l, k, k = file[l]>>]
       \o UnitsFrom(f, file, l + 1)

FileUnits(f) == UnitsFrom(f, fnames_[f], 1)

RECURSIVE CorpusFrom(_)
CorpusFrom(f) ==
  IF f > Len(fnames_) THEN <<>> ELSE FileUnits(f) \o CorpusFrom(f + 1)

\* every piece of every file, in file-list order
CorpusUnits == CorpusFrom(1)

\* the lines of the corpus, <<file, line>>, in file-list order
RECURSIVE LinesFrom(_)
LinesFrom(f) ==
  IF f > Len(fnames_) THEN <<>>
  ELSE [l \in 1..Len(fnames_[f]) |-> <<f, l>>] \o LinesFrom(f + 1)

CorpusLines == LinesFrom(1)

\* TrainFileHandler::gets on handle h: the next piece, or EOF (nullptr)
EOF == <<>>
Gets(h) ==
  IF h.pos < Len(FileUnits(h.path + 1)) THEN FileUnits(h.path + 1)[h.pos + 1]
  ELSE EOF

\* getfilehandler(fnames_[p], read_mode_): a handle at the start of file p
GetFileHandler(p) == [path |-> p, pos |-> 0]

\* Reader::parseline: the sentence built from one piece. The tokens are not
\* modelled here; a sentence is identified by the piece it was parsed from.
ParseLine(u) == <<u[1], u[2], u[3]>>

CorpusSentences == [k \in 1..Len(CorpusUnits) |-> ParseLine(CorpusUnits[k])]

\* ----------------------------------------------------------- get_next log
\* What a get_next call that returns r with the caller's buffer `batch` adds to
\* the history.
RecordReturn(r, batch) ==
  /\ rets' = Append(rets, r)
  /\ passLog' = IF r THEN passLog \o batch ELSE <<>>
  /\ lastPass' = IF r THEN lastPass ELSE passLog
  /\ afterLast' = lastDelivered
  /\ lastDelivered' = (r /\ batch # <<>> /\ passLog \o batch = CorpusSentences)

\* ------------------------------------------------------------ OnceReader
\* readlines(fnames_, f, read_mode_, assert_no_long_lines): the lines handed to
\* f, and whether the KOAN_ASSERT on the trailing newline threw on the way.
RECURSIVE ReadLinesFrom(_, _, _)
ReadLinesFrom(units, k, strict) ==
  IF k > Len(units) THEN [threw |-> FALSE, out |-> <<>>]
  ELSE IF strict /\ ~units[k][4] THEN [threw |-> TRUE, out |-> <<>>]
  ELSE LET rest == ReadLinesFrom(units, k + 1, strict)
       IN  [threw |-> rest.threw, out |-> <<ParseLine(units[k])>> \o rest.out]

ReadLines(strict) == ReadLinesFrom(CorpusUnits, 1, strict)

\* OnceReader::get_next, the caller's buffer s after `if (not read_) {...}`
OnceFillAlways(s, out) == s \o out
OnceFill(s, out) == IF read_ THEN s ELSE s \o out

\* OnceReader::get_next
OnceGetNext ==
  /\ pc = "call"
  /\ read_whole_data
  /\ LET rl == ReadLines(assert_no_long_lines_)
         s == OnceFill(sentences, rl.out)
     IN  IF ~read_ /\ rl.threw
         THEN /\ pc' = "aborted"
              /\ sentences' = s
              /\ UNCHANGED <<ret, onceVars, readerHist>>
         ELSE /\ read_' = TRUE
              /\ fake_reached_eof_' = ~fake_reached_eof_
              /\ ret' = ~fake_reached_eof_
              /\ sentences' = s
              /\ pc' = "returned"
              /\ RecordReturn(~fake_reached_eof_, s)
  /\ UNCHANGED <<libVars, kernelVars, cfgVars, asyncVars, loopVars, runVars, calls, runHist>>

\* ----------------------------------------------------------- AsyncReader
\* one iteration of the loop of the parser thread (the lambda of start_reader)
ParserStep ==
  /\ reader_ = "running"
  /\ IF Len(read_buffer_) < buffer_size_
     THEN LET line == Gets(in_)
          IN  /\ reached_eof_' = (line = EOF)
              /\ IF line = EOF
                 THEN LET next == (path_idx_ + 1) % Len(fnames_)
                      IN  /\ path_idx_' = next
                          /\ reached_eofs_' = (IF next = 0 THEN TRUE ELSE reached_eofs_)
                          /\ in_' = GetFileHandler(next)
                          /\ reader_' = "finished"
                          /\ UNCHANGED read_buffer_
                 ELSE /\ in_' = [in_ EXCEPT !.pos = @ + 1]
                      /\ read_buffer_' = Append(read_buffer_, ParseLine(line))
                      /\ UNCHANGED <<path_idx_, reached_eofs_, reader_>>
     ELSE /\ reader_' = "finished"
          /\ UNCHANGED <<in_, path_idx_, read_buffer_, reached_eof_, reached_eofs_>>
  /\ UNCHANGED <<libVars, kernelVars, cfgVars, reached_eofs_prev_, unjoined, onceVars, callerVars,
                 loopVars, runVars, readerHist, calls, runHist>>

\* AsyncReader::start_reader
StartReader ==
  /\ read_buffer_' = <<>>
  /\ reached_eofs_' = FALSE
  /\ reader_' = "running"
  /\ unjoined' = unjoined + 1

\* AsyncReader::join_reader: reader_->join() returns once the thread has ended
JoinReaderNoWait == UNCHANGED <<reader_, unjoined>>
JoinReader ==
  /\ reader_ = "finished"
  /\ reader_' = "joined"
  /\ unjoined' = unjoined - 1

\* AsyncReader::get_next, the test of reached_eofs_prev_
AsyncCheck ==
  /\ pc = "call"
  /\ ~read_whole_data
  /\ IF reached_eofs_prev_
     THEN /\ reached_eofs_prev_' = FALSE
          /\ ret' = FALSE
          /\ pc' = "returned"
          /\ RecordReturn(FALSE, sentences)
     ELSE /\ pc' = "gn_join"
          /\ UNCHANGED <<reached_eofs_prev_, ret, readerHist>>
  /\ UNCHANGED <<libVars, kernelVars, cfgVars, in_, path_idx_, read_buffer_, reached_eof_,
                 reached_eofs_, reader_, unjoined, onceVars, sentences,
                 loopVars, runVars, calls, runHist>>

\* AsyncReader::get_next, join_reader()
AsyncJoin ==
  /\ pc = "gn_join"
  /\ JoinReader
  /\ pc' = "gn_take"
  /\ UNCHANGED <<libVars, kernelVars, cfgVars, in_, path_idx_, read_buffer_, reached_eof_,
                 reached_eofs_, reached_eofs_prev_, onceVars, sentences, ret,
                 loopVars, runVars, readerHist, calls, runHist>>

\* AsyncReader::get_next, taking the batch out of read_buffer_
AsyncTake ==
  /\ pc = "gn_take"
  /\ reached_eofs_prev_' = reached_eofs_
  /\ sentences' = read_buffer_
  /\ read_buffer_' = <<>>
  /\ pc' = "gn_start"
  /\ UNCHANGED <<libVars, kernelVars, cfgVars, in_, path_idx_, reached_eof_, reached_eofs_, reader_,
                 unjoined, onceVars, ret, loopVars, runVars, readerHist, calls,
                 runHist>>

\* AsyncReader::get_next, start_reader() and return true
AsyncStart ==
  /\ pc = "gn_start"
  /\ StartReader
  /\ ret' = TRUE
  /\ pc' = "returned"
  /\ RecordReturn(TRUE, sentences)
  /\ UNCHANGED <<libVars, kernelVars, cfgVars, in_, path_idx_, reached_eof_, reached_eofs_prev_,
                 onceVars, sentences, loopVars, runVars, calls, runHist>>

\* AsyncReader::~AsyncReader, join_reader()
DtorJoin ==
  /\ pc = "d_join"
  /\ JoinReader
  /\ pc' = "d_close"
  /\ UNCHANGED <<libVars, kernelVars, cfgVars, in_, path_idx_, read_buffer_, reached_eof_,
                 reached_eofs_, reached_eofs_prev_, onceVars, sentences, ret,
                 loopVars, runVars, readerHist, calls, runHist>>

\* AsyncReader::~AsyncReader, in_->close()
DtorClose ==
  /\ pc = "d_close"
  /\ in_' = Closed
  /\ pc' = "done"
  /\ UNCHANGED <<libVars, kernelVars, cfgVars, path_idx_, read_buffer_, reached_eof_, reached_eofs_,
                 reached_eofs_prev_, reader_, unjoined, onceVars, sentences, ret,
                 loopVars, runVars, readerHist, calls, runHist>>

\* the destruction of the reader held by a std::unique_ptr<Reader>
Destroy ==
  /\ pc = "destroy"
  /\ pc' = IF read_whole_data THEN "done" ELSE "d_join"
  /\ UNCHANGED <<libVars, kernelVars, cfgVars, asyncVars, onceVars, sentences, ret, loopVars,
                 runVars, readerHist, calls, runHist>>

ReaderNext ==
  \/ OnceGetNext
  \/ ParserStep
  \/ AsyncCheck
  \/ AsyncJoin
  \/ AsyncTake
  \/ AsyncStart
  \/ Destroy
  \/ DtorJoin
  \/ DtorClose

\* ---------------------------------------------------- the reader harness
\* A caller that makes any number of get_next calls on one buffer and then
\* destroys the reader.
Files == UNION {[1..n -> {1, 2}] : n \in 0..MaxLines}
Corpora == UNION {[1..n -> Files] : n \in 1..MaxFiles}

\* the state after the reader's construction
ReaderInit ==
  /\ fnames_ \in Corpora
  /\ buffer_size_ \in 1..MaxBuffer
  /\ read_whole_data \in BOOLEAN
  /\ assert_no_long_lines_ \in BOOLEAN
  /\ path_idx_ = 0
  /\ in_ = IF read_whole_data THEN Closed ELSE GetFileHandler(0)
  /\ read_buffer_ = <<>>
  /\ reached_eof_ = FALSE
  /\ reached_eofs_ = FALSE
  /\ reached_eofs_prev_ = FALSE
  /\ reader_ = IF read_whole_data THEN "none" ELSE "running"
  /\ unjoined = IF read_whole_data THEN 0 ELSE 1
  /\ read_ = FALSE
  /\ fake_reached_eof_ = FALSE
  /\ sentences = <<>>
  /\ ret = FALSE
  /\ rets = <<>>
  /\ passLog = <<>>
  /\ lastPass = <<>>
  /\ lastDelivered = FALSE
  /\ afterLast = FALSE

\* no cbow_update call is modelled
IdleKernel ==
  /\ table_ = <<>>
  /\ ctx_ = <<>>
  /\ use_bad_update = FALSE
  /\ negatives = 0
  /\ sent = <<>>
  /\ center_idx = 0
  /\ left = 0
  /\ right = 0
  /\ lr = <<0, 1>>
  /\ kpc = "idle"
  /\ avg = <<>>
  /\ source_idx_grad = <<>>
  /\ sources = <<>>
  /\ neg_i = 0
  /\ table_orig = <<>>
  /\ ctx_orig = <<>>
  /\ terms = <<>>
  /\ draws = <<>>

\* IndexMap::IndexMap(): both containers empty
IdleMap ==
  /\ k2i_ = <<>>
  /\ i2k_ = <<>>
  /\ inserted = <<>>
  /\ before = <<<<>>, <<>>>>
  /\ result = [op |-> "none"]
  /\ ops = 0

\* no AliasSampler is under construction
IdleSampler ==
  /\ probs = <<>>
  /\ n_ = 0
  /\ alias_ = <<>>
  /\ prob_ = <<>>
  /\ scaledProbs = <<>>
  /\ small = <<>>
  /\ large = <<>>
  /\ spc = "idle"
  /\ sampled = [bucket |-> 0, r |-> <<0, 1>>, value |-> 0]
  /\ nsamples = 0

\* the components no operation of which is modelled
\* no vocabulary is set up and no line is parsed
IdleParse ==
  /\ ordered_vocab = <<>>
  /\ discard_ = TRUE
  /\ ntable = 0
  /\ vocab_i = 0
  /\ via_readlines = FALSE
  /\ raw = <<>>
  /\ line_arg = <<>>
  /\ words_ = <<>>
  /\ parsed = <<>>
  /\ word_t = 0
  /\ ppc = "idle"

\* no Trainer is constructed
IdleTrain ==
  /\ gens_ = <<>>
  /\ neg_samplers_ = <<>>
  /\ filter_probs_ = <<>>
  /\ ctxs = 1
  /\ stream = "zero"
  /\ busy = 0
  /\ tpc = "idle"
  /\ run = 1
  /\ initial = <<>>
  /\ first = <<>>
  /\ updates = <<>>
  /\ remaining_toks = 0

\* no probability is prepared
IdleProb ==
  /\ freqs = <<>>
  /\ downsample_th = <<0, 1>>
  /\ tot = 0
  /\ prob = <<>>
  /\ prob_w = 0
  /\ fpc = "idle"

\* no schedule runs
IdleLr ==
  /\ start_lr_schedule_epoch = 0
  /\ max_lr_schedule_epochs = 0
  /\ total_sentences = 0
  /\ init_lr = <<0, 1>>
  /\ min_lr = <<0, 1>>
  /\ curr_lr = <<0, 1>>
  /\ corpus_sentences = 0
  /\ lrs = {}
  /\ lpc = "idle"

\* no sg_update runs
IdleSg ==
  /\ cbow = TRUE
  /\ target_idx = 0
  /\ cw_local = <<>>

\* no two threads update a row
IdleRace ==
  /\ source = <<>>
  /\ grad = <<>>
  /\ fetched = <<>>
  /\ rpc = <<>>
  /\ overlapped = FALSE
  /\ stores = <<>>

IdleAux == IdleProb /\ IdleLr /\ IdleSg /\ IdleRace
IdleExt == IdleParse /\ IdleTrain /\ IdleAux

IdleLib == IdleMap /\ IdleSampler /\ IdleExt

IdleRunner ==
  /\ num_threads = 1
  /\ epochs = 1
  /\ partitioned = FALSE
  /\ shuffle = FALSE
  /\ e = 0
  /\ global_i = 0
  /\ perm = <<>>
  /\ i = 0
  /\ ti = 0
  /\ wpc = <<"none">>
  /\ wi = <<0>>
  /\ wend = <<0>>
  /\ wtid = <<0>>
  /\ fcalls = <<>>
  /\ fby = <<>>
  /\ trained = <<>>
  /\ ntrain = 0

HarnessInit ==
  /\ ReaderInit
  /\ IdleRunner
  /\ IdleKernel
  /\ IdleLib
  /\ pc = "idle"
  /\ calls = 0

HarnessCall ==
  /\ pc = "idle"
  /\ calls < MaxCalls
  /\ calls' = calls + 1
  /\ pc' = "call"
  /\ UNCHANGED <<libVars, kernelVars, cfgVars, asyncVars, onceVars, sentences, ret, loopVars,
                 runVars, readerHist, runHist>>

HarnessReturn ==
  /\ pc = "returned"
  /\ pc' = "idle"
  /\ UNCHANGED <<libVars, kernelVars, cfgVars, asyncVars, onceVars, sentences, ret, loopVars,
                 runVars, readerHist, calls, runHist>>

HarnessDestroy ==
  /\ pc = "idle"
  /\ pc' = "destroy"
  /\ UNCHANGED <<libVars, kernelVars, cfgVars, asyncVars, onceVars, sentences, ret, loopVars,
                 runVars, readerHist, calls, runHist>>

HarnessNext ==
  \/ HarnessCall
  \/ HarnessReturn
  \/ HarnessDestroy
  \/ ReaderNext

SpecReader == HarnessInit /\ [][HarnessNext]_vars

\* ------------------------------------------------- the parallel runners
Workers == 1..num_threads

\* `end` of both runners: main passes sentences.size()
End == Len(sentences)

\* the indices a dispatch can hand to f, were a runner to overrun by one round
Indices == 0..(End + num_threads)

\* parallel_for: `if (i_ >= end) { break; }`
StopAtPast(i_, end) == i_ > end
StopAt(i_, end) == i_ >= end

\* `begin` of both runners: main passes 0
Begin == 0

\* parallel_for_partitioned: batch_size, batch_start and batch_end of thread t
BatchSize == (End - Begin) \div num_threads
BatchStart(t) == Begin + t * BatchSize
BatchEndEven(t) == Begin + (t + 1) * BatchSize
BatchEnd(t) == IF t < num_threads - 1 THEN Begin + (t + 1) * BatchSize ELSE End

\* t.join() returns once thread t has left its function
ThreadJoinNoWait(t) == TRUE
ThreadJoin(t) == wpc[t] = "exit"

\* entry of either runner: std::vector<std::thread> threads(num_threads) and,
\* in parallel_for, std::atomic<size_t> i = begin
RunnerEnter ==
  /\ pc = "dispatch"
  /\ i' = Begin
  /\ ti' = 0
  /\ wpc' = [t \in Workers |-> "none"]
  /\ wi' = [t \in Workers |-> 0]
  /\ wend' = [t \in Workers |-> 0]
  /\ wtid' = [t \in Workers |-> 0]
  /\ fcalls' = [k \in Indices |-> 0]
  /\ fby' = [k \in Indices |-> {}]
  /\ pc' = "spawn"
  /\ UNCHANGED <<libVars, kernelVars, cfgVars, asyncVars, onceVars, sentences, ret, loopVars,
                 readerHist, calls, trained, ntrain>>

\* the loop that starts the threads, one per iteration
Spawn ==
  /\ pc = "spawn"
  /\ IF ti < num_threads
     THEN /\ wpc' = [wpc EXCEPT ![ti + 1] = "fetch"]
          /\ wi' = [wi EXCEPT ![ti + 1] = IF partitioned THEN BatchStart(ti) ELSE @]
          /\ wend' = [wend EXCEPT ![ti + 1] = IF partitioned THEN BatchEnd(ti) ELSE @]
          /\ ti' = ti + 1
          /\ pc' = pc
     ELSE /\ ti' = 0
          /\ pc' = "join"
          /\ UNCHANGED <<wpc, wi, wend>>
  /\ UNCHANGED <<libVars, kernelVars, cfgVars, asyncVars, onceVars, sentences, ret, loopVars, i,
                 wtid, readerHist, calls, runHist>>

\* `for (auto& t : threads) t.join();` and the return of the runner
Join ==
  /\ pc = "join"
  /\ IF ti < num_threads
     THEN /\ ThreadJoin(ti + 1)
          /\ ti' = ti + 1
          /\ pc' = pc
     ELSE /\ ti' = 0
          /\ pc' = "ran"
  /\ UNCHANGED <<libVars, kernelVars, cfgVars, asyncVars, onceVars, sentences, ret, loopVars, i,
                 wpc, wi, wend, wtid, readerHist, calls, runHist>>

\* by reference the lambda would read the loop variable of the creating loop
SharedTi(t) == ti
\* the lambda of thread t: `[ti, &i, &f, &end]`, ti captured by value when
\* the thread with index t - 1 is created
CapturedTi(t) == t - 1

\* Trainer::Params{.threads = num_threads}: the length of scratch_, scratch2_,
\* gens_, dists_ and neg_samplers_
ParamsThreads == num_threads

\* the arguments of the call f(i_, ti) thread t makes next
CallTid(t, calling) == [wtid EXCEPT ![t] = IF calling THEN CapturedTi(t) ELSE @]

\* parallel_for, thread t: `size_t i_ = i++; if (i_ >= end) { break; }`
PfFetch(t) ==
  /\ ~partitioned
  /\ wpc[t] = "fetch"
  /\ wi' = [wi EXCEPT ![t] = i]
  /\ i' = i + 1
  /\ wpc' = [wpc EXCEPT ![t] = IF StopAt(i, End) THEN "exit" ELSE "work"]
  /\ wtid' = CallTid(t, ~StopAt(i, End))
  /\ UNCHANGED <<libVars, kernelVars, cfgVars, asyncVars, onceVars, callerVars, loopVars, ti, wend,
                 readerHist, calls, runHist>>

\* parallel_for_partitioned, thread t: the test `i < batch_end` of its loop
PpCheck(t) ==
  /\ partitioned
  /\ wpc[t] = "fetch"
  /\ wpc' = [wpc EXCEPT ![t] = IF wi[t] < wend[t] THEN "work" ELSE "exit"]
  /\ wtid' = CallTid(t, wi[t] < wend[t])
  /\ UNCHANGED <<libVars, kernelVars, cfgVars, asyncVars, onceVars, callerVars, loopVars, i, ti, wi,
                 wend, readerHist, calls, runHist>>

\* the sentence work(i_, tid) trains: sentences[perm[i_]]
WorkSentence(i_) == sentences[perm[i_ + 1] + 1]

\* thread t: the call f(i_, ti), which is main's `work`, up to its return
Work(t) ==
  /\ wpc[t] = "work"
  /\ fcalls' = [fcalls EXCEPT ![wi[t]] = @ + 1]
  /\ fby' = [fby EXCEPT ![wi[t]] = @ \cup {wtid[t]}]
  /\ IF wi[t] < Len(perm) /\ perm[wi[t] + 1] < Len(sentences)
        /\ WorkSentence(wi[t]) \in DOMAIN trained
     THEN /\ trained' = [trained EXCEPT ![WorkSentence(wi[t])] = @ + 1]
          /\ ntrain' = ntrain + 1
     ELSE UNCHANGED <<trained, ntrain>>
  /\ wpc' = [wpc EXCEPT ![t] = "fetch"]
  /\ wi' = [wi EXCEPT ![t] = IF partitioned THEN @ + 1 ELSE @]
  /\ UNCHANGED <<libVars, kernelVars, cfgVars, asyncVars, onceVars, callerVars, loopVars, i, ti,
                 wend, wtid, readerHist, calls>>

RunnerNext ==
  \/ RunnerEnter
  \/ Spawn
  \/ Join
  \/ \E t \in Workers : PfFetch(t)
  \/ \E t \in Workers : PpCheck(t)
  \/ \E t \in Workers : Work(t)

\* ---------------------------------------------------- the runner harness
\* one dispatch over a batch of M sentences
Range(f) == {f[x] : x \in DOMAIN f}
Perms(n) == {p \in [1..n -> 0..(n - 1)] : \A a, b \in 1..n : p[a] = p[b] => a = b}
Iota(n) == [k \in 1..n |-> k - 1]

NoReader ==
  /\ fnames_ = <<<<>>>>
  /\ buffer_size_ = 1
  /\ read_whole_data = TRUE
  /\ assert_no_long_lines_ = FALSE
  /\ path_idx_ = 0
  /\ in_ = Closed
  /\ read_buffer_ = <<>>
  /\ reached_eof_ = FALSE
  /\ reached_eofs_ = FALSE
  /\ reached_eofs_prev_ = FALSE
  /\ reader_ = "none"
  /\ unjoined = 0
  /\ read_ = TRUE
  /\ fake_reached_eof_ = TRUE
  /\ ret = TRUE
  /\ rets = <<>>
  /\ passLog = <<>>
  /\ lastPass = <<>>
  /\ lastDelivered = FALSE
  /\ afterLast = FALSE
  /\ calls = 0

RunnerInit ==
  /\ NoReader
  /\ IdleKernel
  /\ IdleLib
  /\ \E m \in 0..MaxBatch : sentences = [k \in 1..m |-> <<0, k, 1>>]
  /\ num_threads \in 1..(MaxThreads + 1)
  /\ partitioned \in BOOLEAN
  /\ shuffle \in BOOLEAN
  /\ perm \in (IF shuffle THEN Perms(Len(sentences)) ELSE {Iota(Len(sentences))})
  /\ epochs = 1
  /\ e = 0
  /\ global_i = 0
  /\ i = 0
  /\ ti = 0
  /\ wpc = [t \in Workers |-> "none"]
  /\ wi = [t \in Workers |-> 0]
  /\ wend = [t \in Workers |-> 0]
  /\ wtid = [t \in Workers |-> 0]
  /\ fcalls = <<>>
  /\ fby = <<>>
  /\ trained = [s \in Range(sentences) |-> 0]
  /\ ntrain = 0
  /\ pc = "dispatch"

SpecRunner == RunnerInit /\ [][RunnerNext]_vars

\* ------------------------------------------------- the batch loop of main
\* `for (size_t e = 0; e < epochs; e++)`: the test, and the head of the body
EpochBegin ==
  /\ pc = "epoch"
  /\ IF e < epochs
     THEN /\ global_i' = 0
          /\ trained' = [s \in DOMAIN trained |-> 0]
          /\ pc' = "call"
     ELSE /\ pc' = "destroy"
          /\ UNCHANGED <<global_i, trained>>
  /\ UNCHANGED <<libVars, kernelVars, cfgVars, asyncVars, onceVars, sentences, ret, e, perm, runVars,
                 readerHist, calls, fcalls, fby, ntrain>>

\* `while (reader->get_next(sentences))`: the test on the value returned, then
\* perm (iota, shuffled if asked) or the end of the epoch
MainGot ==
  /\ pc = "returned"
  /\ IF ret
     THEN /\ perm' \in (IF shuffle THEN Perms(Len(sentences))
                                   ELSE {Iota(Len(sentences))})
          /\ pc' = "dispatch"
          /\ e' = e
     ELSE /\ e' = e + 1
          /\ pc' = "epoch"
          /\ perm' = perm
  /\ UNCHANGED <<libVars, kernelVars, cfgVars, asyncVars, onceVars, sentences, ret, global_i,
                 runVars, readerHist, calls, runHist>>

\* `global_i += sentences.size();` after the runner has returned
MainAfter ==
  /\ pc = "ran"
  /\ global_i' = global_i + Len(sentences)
  /\ pc' = "call"
  /\ UNCHANGED <<libVars, kernelVars, cfgVars, asyncVars, onceVars, sentences, ret, e, perm, runVars,
                 readerHist, calls, runHist>>

MainNext ==
  \/ EpochBegin
  \/ MainGot
  \/ MainAfter

\* the state of main() once the reader has been constructed
Init ==
  /\ ReaderInit
  /\ IdleKernel
  /\ IdleLib
  /\ Len(CorpusUnits) <= MaxSentences
  /\ num_threads \in 1..MaxThreads
  /\ epochs \in 1..MaxEpochs
  /\ partitioned \in BOOLEAN
  /\ shuffle \in BOOLEAN
  /\ e = 0
  /\ global_i = 0
  /\ perm = <<>>
  /\ i = 0
  /\ ti = 0
  /\ wpc = [t \in Workers |-> "none"]
  /\ wi = [t \in Workers |-> 0]
  /\ wend = [t \in Workers |-> 0]
  /\ wtid = [t \in Workers |-> 0]
  /\ fcalls = <<>>
  /\ fby = <<>>
  /\ trained = [s \in Range(CorpusSentences) |-> 0]
  /\ ntrain = 0
  /\ calls = 0
  /\ pc = "epoch"

Next ==
  \/ MainNext
  \/ RunnerNext
  \/ ReaderNext

Spec == Init /\ [][Next]_vars

\* every thread that can take a step is scheduled eventually
FairSpec == Spec /\ WF_vars(Next)

\* ------------------------------------------------ Real and Vector values
\* A Real is a fraction <<numerator, denominator>> in lowest terms with a
\* positive denominator, so that every sum, product and quotient below is
\* exact; a Vector is a sequence of Dim of them.
Abs(x) == IF x < 0 THEN -x ELSE x

RECURSIVE GCD(_, _)
GCD(a, b) == IF b = 0 THEN a ELSE GCD(b, a % b)

Frac(n, d) ==
  LET g == GCD(Abs(n), Abs(d))
      sgn == IF d < 0 THEN -1 ELSE 1
  IN  <<sgn * (n \div g), sgn * (d \div g)>>

Real(n) == <<n, 1>>
Add(a, b) ==
  LET g == GCD(a[2], b[2])
  IN  Frac(a[1] * (b[2] \div g) + b[1] * (a[2] \div g), (a[2] \div g) * b[2])
Neg(a) == <<-a[1], a[2]>>
Sub(a, b) == Add(a, Neg(b))
Mul(a, b) == Frac(a[1] * b[1], a[2] * b[2])
Div(a, b) == Frac(a[1] * b[2], a[2] * b[1])
Less(a, b) == a[1] * b[2] < b[1] * a[2]
Floor(a) == a[1] \div a[2]
Clamp(x, lo, hi) == IF Less(x, lo) THEN lo ELSE IF Less(hi, x) THEN hi ELSE x

Zero == [k \in 1..Dim |-> Real(0)]
VAdd(u, v) == [k \in 1..Dim |-> Add(u[k], v[k])]
VSub(u, v) == [k \in 1..Dim |-> Sub(u[k], v[k])]
VMul(v, c) == [k \in 1..Dim |-> Mul(v[k], c)]
VDiv(v, c) == [k \in 1..Dim |-> Div(v[k], c)]

RECURSIVE DotFrom(_, _, _)
DotFrom(u, v, k) ==
  IF k > Dim THEN Real(0) ELSE Add(Mul(u[k], v[k]), DotFrom(u, v, k + 1))

Dot(u, v) == DotFrom(u, v, 1)

\* --------------------------------------------------------------- sigmoid
factor == 64
window == 8
TableSize == factor * window * 2 + 1

\* An entry of the lookup table. The first and the last are set to 0 and 1;
\* the ones in between are values of tanh, which are irrational: they are
\* replaced by a nondecreasing step function with values in (0, 1), one step
\* per 128 entries.
SigmoidTable(idx) ==
  IF idx = 0 THEN Real(0)
  ELSE IF idx = TableSize - 1 THEN Real(1)
  ELSE Frac(idx \div (2 * factor) + 1, 10)

\* table[size_t(fma(clamp(x, lo, hi), m, a))]
sigmoid(x) ==
  LET lo == Real(-window)
      hi == Real(window)
      m == Real(factor)
      a == Real(factor * window)
  IN  SigmoidTable(Floor(Add(Mul(Clamp(x, lo, hi), m), a)))

\* ------------------------------------------------- Trainer::cbow_update
Words == 0..(VocabSize - 1)

\* the context positions of the call: [left, right) without center_idx
SourceIdx == {p \in left..(right - 1) : p # center_idx}

\* `avg += v` over the context positions from p on
RECURSIVE SumFrom(_)
SumFrom(p) ==
  IF p >= right THEN Zero
  ELSE IF p = center_idx THEN SumFrom(p + 1)
  ELSE VAdd(table_[sent[p + 1]], SumFrom(p + 1))

\* `sources.push_back(&v)` over the context positions from p on
RECURSIVE SourcesFrom(_)
SourcesFrom(p) ==
  IF p >= right THEN <<>>
  ELSE IF p = center_idx THEN SourcesFrom(p + 1)
  ELSE <<sent[p + 1]>> \o SourcesFrom(p + 1)

num_source_ids == Len(sources)

\* what one sample adds to source_idx_grad: row * (c * lr), divided by the
\* number of context words unless use_bad_update is set
GradTermUnnormalized(row, c) == VMul(row, c)

GradTerm(row, c) ==
  IF use_bad_update THEN VMul(row, c)
  ELSE VDiv(VMul(row, c), Real(num_source_ids))

\* `for (auto source : sources) { *source -= source_idx_grad; }` from the
\* k-th source on
RECURSIVE ApplyFrom(_, _)
ApplyFrom(t, k) ==
  IF k > Len(sources) THEN t
  ELSE ApplyFrom([t EXCEPT ![sources[k]] = VSub(@, source_idx_grad)], k + 1)

\* the two scratch vectors are zeroed, the context rows summed and collected,
\* and the sum divided by their number when there is one
CbowCollect ==
  /\ kpc = "collect"
  /\ sources' = SourcesFrom(left)
  /\ source_idx_grad' = Zero
  /\ IF Len(sources') > 0
     THEN /\ avg' = VDiv(SumFrom(left), Real(Len(sources')))
          /\ kpc' = "positive"
     ELSE /\ avg' = SumFrom(left)
          /\ kpc' = "done"
  /\ UNCHANGED <<libVars, loopAll, table_, ctx_, use_bad_update, negatives, sent,
                 center_idx, left, right, lr, neg_i, table_orig, ctx_orig,
                 terms, draws>>

\* the update for the positive sample
CbowPositive ==
  /\ kpc = "positive"
  /\ LET center_word == ctx_[sent[center_idx + 1]]
         sig_pos == sigmoid(Dot(avg, center_word))
         c == Mul(Sub(sig_pos, Real(1)), lr)
     IN  /\ IF Less(sig_pos, Real(1))
            THEN /\ source_idx_grad' =
                      VAdd(source_idx_grad, GradTerm(center_word, c))
                 /\ ctx_' = [ctx_ EXCEPT ![sent[center_idx + 1]] =
                                           VSub(@, VMul(avg, c))]
            ELSE UNCHANGED <<source_idx_grad, ctx_>>
         /\ terms' = Append(terms, [p |-> sig_pos, row |-> center_word,
                                    positive |-> TRUE,
                                    word |-> sent[center_idx + 1]])
  /\ neg_i' = 0
  /\ kpc' = "negative"
  /\ UNCHANGED <<libVars, loopAll, table_, use_bad_update, negatives, sent, center_idx,
                 left, right, lr, avg, sources, table_orig, ctx_orig, draws>>

\* the row as it was when the call began
RandomWordAtEntry(random_idx) == ctx_orig[random_idx]
\* `auto& rw = ctx_[random_idx];` a reference into the shared table
RandomWord(random_idx) == ctx_[random_idx]

\* one round of the loop over the negative samples; the sampler returns some
\* word, which is compared with the position of the center word
NegativeStep(random_idx) ==
  /\ kpc = "negative"
  /\ neg_i < negatives
  /\ IF random_idx = center_idx
     THEN UNCHANGED <<source_idx_grad, ctx_, terms>>
     ELSE LET rw == RandomWord(random_idx)
              sig_neg == sigmoid(Dot(avg, rw))
              c == Mul(sig_neg, lr)
          IN  /\ IF Less(Real(0), sig_neg)
                 THEN /\ source_idx_grad' =
                           VAdd(source_idx_grad, GradTerm(rw, c))
                      /\ ctx_' = [ctx_ EXCEPT ![random_idx] =
                                                VSub(@, VMul(avg, c))]
                 ELSE UNCHANGED <<source_idx_grad, ctx_>>
              /\ terms' = Append(terms, [p |-> sig_neg, row |-> rw,
                                         positive |-> FALSE,
                                         word |-> random_idx])
  /\ draws' = Append(draws, [word |-> random_idx,
                             processed |-> random_idx # center_idx])
  /\ neg_i' = neg_i + 1
  /\ UNCHANGED <<loopAll, table_, use_bad_update, negatives, sent, center_idx,
                 left, right, lr, kpc, avg, sources, table_orig, ctx_orig>>

\* a call made on its own: the sampler may return any word
CbowNegative ==
  /\ tpc = "idle"
  /\ \E random_idx \in Words : NegativeStep(random_idx)
  /\ UNCHANGED libVars

\* the loop over the negative samples is over: every source row is updated
CbowApply ==
  /\ kpc = "negative"
  /\ neg_i >= negatives
  /\ table_' = ApplyFrom(table_, 1)
  /\ kpc' = "done"
  /\ UNCHANGED <<libVars, loopAll, ctx_, use_bad_update, negatives, sent, center_idx,
                 left, right, lr, avg, source_idx_grad, sources, neg_i,
                 table_orig, ctx_orig, terms, draws>>

CbowNext ==
  \/ CbowCollect
  \/ CbowPositive
  \/ CbowNegative
  \/ CbowApply

\* the embeddings and the arguments one call is checked on: the table rows
\* differ from word to word, and the rows are such that the logits fall inside
\* the window of the sigmoid for some inputs and on or beyond its ends for
\* others
TableValues == {1, 2}
CtxValues == {-2, 2}
LrValues == {<<1, 2>>}
Sentences == UNION {[1..n -> Words] : n \in 1..MaxSentLen}

UpdateArgs ==
  /\ NoReader
  /\ IdleRunner
  /\ pc = "idle"
  /\ sentences = <<>>
  /\ \E v \in TableValues : table_ = [w \in Words |-> [k \in 1..Dim |-> Real(v + w)]]
  /\ ctx_ \in [Words -> [1..Dim -> {Real(v) : v \in CtxValues}]]
  /\ use_bad_update \in BOOLEAN
  /\ negatives \in 0..MaxNegatives
  /\ sent \in Sentences
  /\ center_idx \in 0..(Len(sent) - 1)
  /\ left \in 0..center_idx
  /\ right \in (center_idx + 1)..Len(sent)
  /\ lr \in LrValues
  /\ avg = Zero
  /\ source_idx_grad = Zero
  /\ sources = <<>>
  /\ neg_i = 0
  /\ table_orig = table_
  /\ ctx_orig = ctx_
  /\ terms = <<>>
  /\ draws = <<>>

CbowInit ==
  /\ UpdateArgs
  /\ IdleLib
  /\ kpc = "collect"

SpecCbow == CbowInit /\ [][CbowNext]_vars

\* --------------------------------------------------- Trainer::sg_update
\* the row a position is taken for a word
CenterPosition == center_idx
\* `table_.at(sent[center_idx])`
CenterToken == sent[center_idx + 1]

\* what no step of sg_update changes
sgFrame == <<loopAll, mapVars, samplerVars, parseVars, trainVars, probVars,
             lrVars, raceVars, cbow, use_bad_update, negatives, sent, center_idx, left,
             right, lr, avg, source_idx_grad, sources, table_orig, ctx_orig,
             terms>>

\* the head of the loop over the targets, for a target other than the center:
\* the update for the positive sample
SgPositive ==
  /\ kpc = "target"
  /\ target_idx < right
  /\ target_idx # center_idx
  /\ LET center_word == table_[CenterToken]
         target_word == ctx_[sent[target_idx + 1]]
         sig_pos == sigmoid(Dot(center_word, target_word))
         c == Mul(Sub(sig_pos, Real(1)), lr)
     IN  IF Less(sig_pos, Real(1))
         THEN /\ cw_local' = VSub(cw_local, VMul(target_word, c))
              /\ ctx_' = [ctx_ EXCEPT ![sent[target_idx + 1]] =
                                        VSub(@, VMul(center_word, c))]
         ELSE UNCHANGED <<cw_local, ctx_>>
  /\ neg_i' = 0
  /\ kpc' = "sg_negative"
  /\ UNCHANGED <<sgFrame, table_, target_idx, draws>>

\* `if (target_idx != center_idx)` is false
SgSkip ==
  /\ kpc = "target"
  /\ target_idx < right
  /\ target_idx = center_idx
  /\ target_idx' = target_idx + 1
  /\ UNCHANGED <<sgFrame, table_, ctx_, cw_local, neg_i, kpc, draws>>

\* one round of the loop over the negative samples of a target; the sampler
\* returns some word
SgNegative ==
  /\ kpc = "sg_negative"
  /\ neg_i < negatives
  /\ \E random_i \in Words :
       LET center_word == table_[CenterToken]
           random_word == ctx_[random_i]
           sig_neg == sigmoid(Dot(center_word, random_word))
           c == Mul(sig_neg, lr)
       IN  /\ IF Less(Real(0), sig_neg)
              THEN /\ cw_local' = VSub(cw_local, VMul(random_word, c))
                   /\ ctx_' = [ctx_ EXCEPT ![random_i] =
                                             VSub(@, VMul(center_word, c))]
              ELSE UNCHANGED <<cw_local, ctx_>>
           /\ draws' = Append(draws, [word |-> random_i, processed |-> TRUE])
  /\ neg_i' = neg_i + 1
  /\ UNCHANGED <<sgFrame, table_, target_idx, kpc>>

\* the loop over the negative samples is over: target_idx++
SgNextTarget ==
  /\ kpc = "sg_negative"
  /\ neg_i >= negatives
  /\ target_idx' = target_idx + 1
  /\ kpc' = "target"
  /\ UNCHANGED <<sgFrame, table_, ctx_, cw_local, neg_i, draws>>

\* the loop over the targets is over: `center_word += cw_local;`
SgApply ==
  /\ kpc = "target"
  /\ target_idx >= right
  /\ table_' = [table_ EXCEPT ![CenterToken] = VAdd(@, cw_local)]
  /\ kpc' = "done"
  /\ UNCHANGED <<sgFrame, ctx_, target_idx, cw_local, neg_i, draws>>

SgNext ==
  \/ SgPositive
  \/ SgSkip
  \/ SgNegative
  \/ SgNextTarget
  \/ SgApply

\* one call of either update, as train makes it
UpdateInit ==
  /\ UpdateArgs
  /\ IdleMap
  /\ IdleSampler
  /\ IdleParse
  /\ IdleTrain
  /\ IdleProb
  /\ IdleLr
  /\ IdleRace
  /\ cbow \in BOOLEAN
  /\ ~cbow => ~use_bad_update
  /\ kpc = IF cbow THEN "collect" ELSE "target"
  /\ target_idx = IF cbow THEN 0 ELSE left
  /\ cw_local = IF cbow THEN <<>> ELSE Zero

UpdateNext ==
  \/ CbowNext
  \/ SgNext

SpecUpdate == UpdateInit /\ [][UpdateNext]_vars

\* -------------------------------------------------------------- IndexMap
Keys == 1..MaxKeys

\* std::unordered_map::emplace(key, v): the map afterwards, and whether the
\* key was inserted (the `second` of the pair returned)
EmplaceAssign(m, key, v) == [k \in DOMAIN m \cup {key} |-> IF k = key THEN v ELSE m[k]]
Emplace(m, key, v) ==
  IF key \in DOMAIN m THEN m
  ELSE [k \in DOMAIN m \cup {key} |-> IF k = key THEN v ELSE m[k]]

EmplaceSecond(m, key) == key \notin DOMAIN m

\* size(), has(key)
size == Len(i2k_)
has(key) == key \in DOMAIN k2i_

\* lookup(key) is k2i_.at(key) and reverse_lookup(i) is i2k_.at(i): at() throws
\* std::out_of_range for a key that is absent, an index that is not below size()
lookup(key) ==
  IF key \in DOMAIN k2i_ THEN [throws |-> FALSE, value |-> k2i_[key]]
  ELSE [throws |-> TRUE, value |-> 0]

reverse_lookup(idx) ==
  IF idx < size THEN [throws |-> FALSE, value |-> i2k_[idx + 1]]
  ELSE [throws |-> TRUE, value |-> 0]

Insert(key) ==
  /\ k2i_' = Emplace(k2i_, key, size)
  /\ i2k_' = IF EmplaceSecond(k2i_, key) THEN Append(i2k_, key) ELSE i2k_
  /\ inserted' = Append(inserted, key)
  /\ result' = [op |-> "insert", arg |-> key]

Clear ==
  /\ k2i_' = <<>>
  /\ i2k_' = <<>>
  /\ inserted' = <<>>
  /\ result' = [op |-> "clear"]

Has(key) ==
  /\ result' = [op |-> "has", arg |-> key, value |-> has(key)]
  /\ UNCHANGED <<k2i_, i2k_, inserted>>

\* operator[] of the underlying map in place of at(): an absent key is
\* default-inserted
LookupSubscript(key) ==
  /\ result' = [op |-> "lookup", arg |-> key, throws |-> FALSE,
                value |-> IF has(key) THEN k2i_[key] ELSE 0]
  /\ k2i_' = Emplace(k2i_, key, 0)
  /\ UNCHANGED <<i2k_, inserted>>

Lookup(key) ==
  /\ result' = [op |-> "lookup", arg |-> key,
                throws |-> lookup(key).throws, value |-> lookup(key).value]
  /\ UNCHANGED <<k2i_, i2k_, inserted>>

ReverseLookup(idx) ==
  /\ result' = [op |-> "reverse_lookup", arg |-> idx,
                throws |-> reverse_lookup(idx).throws,
                value |-> reverse_lookup(idx).value]
  /\ UNCHANGED <<k2i_, i2k_, inserted>>

\* what every operation leaves alone, and the history it writes
MapFrame ==
  /\ ops < MaxOps
  /\ ops' = ops + 1
  /\ before' = <<k2i_, i2k_>>
  /\ UNCHANGED <<loopAll, kernelVars, samplerVars, extVars>>

MapInsert ==
  /\ MapFrame
  /\ \E key \in Keys : Insert(key)

MapClear ==
  /\ MapFrame
  /\ Clear

MapHas ==
  /\ MapFrame
  /\ \E key \in Keys : Has(key)

MapLookup ==
  /\ MapFrame
  /\ \E key \in Keys : Lookup(key)

MapReverseLookup ==
  /\ MapFrame
  /\ \E idx \in 0..MaxKeys : ReverseLookup(idx)

IndexMapNext ==
  \/ MapInsert
  \/ MapClear
  \/ MapHas
  \/ MapLookup
  \/ MapReverseLookup

\* no reader, runner or update call: only the map
NoLoop ==
  /\ NoReader
  /\ IdleRunner
  /\ IdleKernel
  /\ pc = "idle"
  /\ sentences = <<>>

IndexMapInit ==
  /\ NoLoop
  /\ IdleLib

SpecIndexMap == IndexMapInit /\ [][IndexMapNext]_vars

\* ---------------------------------------------------------- AliasSampler
\* std::accumulate(probs.begin(), probs.end(), 0.0)
RECURSIVE Accumulate(_, _)
Accumulate(seq, k) ==
  IF k > Len(seq) THEN Real(0) ELSE Add(seq[k], Accumulate(seq, k + 1))

LessEq(a, b) == ~Less(b, a)

\* the two conditions of init_alias_table on its argument
AllNonNegative(seq) == \A k \in 1..Len(seq) : LessEq(Real(0), seq[k])
SumIsOne(probSum) == probSum = Real(1)
SumInRange(probSum) ==
  LessEq(Frac(9999, 10000), probSum) /\ LessEq(probSum, Frac(10001, 10000))

\* steps 3 and 4: the vector scaled by n_, and its indices (counted from 0)
\* split into those below 1 and the others, each in increasing order
Scaled(seq) == [k \in 1..Len(seq) |-> Mul(seq[k], Real(Len(seq)))]

RECURSIVE IndicesWhere(_, _, _)
IndicesWhere(seq, k, below) ==
  IF k > Len(seq) THEN <<>>
  ELSE (IF Less(seq[k], Real(1)) = below THEN <<k - 1>> ELSE <<>>)
       \o IndicesWhere(seq, k + 1, below)

Back(seq) == seq[Len(seq)]
PopBack(seq) == SubSeq(seq, 1, Len(seq) - 1)
Front(seq) == seq[1]
EraseBegin(seq) == SubSeq(seq, 2, Len(seq))

\* what is left of class g once it has filled up the bucket of class l:
\* (scaledProbs[g] + scaledProbs[l]) - 1
DonateAll(pg, pl) == Add(pg, pl)
Donate(pg, pl) == Sub(Add(pg, pl), Real(1))

\* the two KOAN_ASSERTs, then steps 2 to 4
SamplerCheck ==
  /\ spc = "check"
  /\ IF AllNonNegative(probs) /\ SumInRange(Accumulate(probs, 1))
     THEN /\ scaledProbs' = Scaled(probs)
          /\ small' = IndicesWhere(Scaled(probs), 1, TRUE)
          /\ large' = IndicesWhere(Scaled(probs), 1, FALSE)
          /\ spc' = "step5"
     ELSE /\ spc' = "failed"
          /\ UNCHANGED <<scaledProbs, small, large>>
  /\ UNCHANGED <<loopAll, kernelVars, mapVars, extVars, probs, n_, alias_,
                 prob_,
                 sampled, nsamples>>

\* step 5: the test of the loop and, while neither list is empty, one round
SamplerStep5 ==
  /\ spc = "step5"
  /\ IF small # <<>> /\ large # <<>>
     THEN LET l == Back(small)
              g == Back(large)
              rest == Donate(scaledProbs[g + 1], scaledProbs[l + 1])
          IN  /\ prob_' = [prob_ EXCEPT ![l + 1] = scaledProbs[l + 1]]
              /\ alias_' = [alias_ EXCEPT ![l + 1] = g]
              /\ scaledProbs' = [scaledProbs EXCEPT ![g + 1] = rest]
              /\ small' = IF Less(rest, Real(1))
                          THEN Append(PopBack(small), g) ELSE PopBack(small)
              /\ large' = IF Less(rest, Real(1))
                          THEN PopBack(large) ELSE Append(PopBack(large), g)
              /\ spc' = spc
     ELSE /\ spc' = "step6"
          /\ UNCHANGED <<prob_, alias_, scaledProbs, small, large>>
  /\ UNCHANGED <<loopAll, kernelVars, mapVars, extVars, probs, n_, sampled,
                 nsamples>>

\* step 6: the classes left in large get threshold 1
SamplerStep6 ==
  /\ spc = "step6"
  /\ IF large # <<>>
     THEN /\ prob_' = [prob_ EXCEPT ![Front(large) + 1] = Real(1)]
          /\ large' = EraseBegin(large)
          /\ spc' = spc
     ELSE /\ spc' = "step7"
          /\ UNCHANGED <<prob_, large>>
  /\ UNCHANGED <<loopAll, kernelVars, mapVars, extVars, probs, n_, alias_,
                 scaledProbs,
                 small, sampled, nsamples>>

\* step 7: so do the classes left in small
SamplerStep7 ==
  /\ spc = "step7"
  /\ IF small # <<>>
     THEN /\ prob_' = [prob_ EXCEPT ![Front(small) + 1] = Real(1)]
          /\ small' = EraseBegin(small)
          /\ spc' = spc
     ELSE /\ spc' = "ready"
          /\ UNCHANGED <<prob_, small>>
  /\ UNCHANGED <<loopAll, kernelVars, mapVars, extVars, probs, n_, alias_,
                 scaledProbs,
                 large, sampled, nsamples>>

\* the values micro_dist_ is let return: numbers of [0, 1), the thresholds of
\* the table among them
RValues ==
  {r \in {Real(0), Frac(1, 2), Frac(9999, 10000)}
           \cup {prob_[k] : k \in 1..Len(prob_)} : Less(r, Real(1))}

\* sample(): macro_dist_ is uniform on 1..n_
SampleValue(bucket, r) ==
  IF LessEq(r, prob_[bucket + 1]) THEN bucket ELSE alias_[bucket + 1]

Sample ==
  /\ spc = "ready"
  /\ nsamples < MaxSamples
  /\ \E m \in 1..n_ : \E r \in RValues :
       sampled' = [bucket |-> m - 1, r |-> r, value |-> SampleValue(m - 1, r)]
  /\ nsamples' = nsamples + 1
  /\ UNCHANGED <<loopAll, kernelVars, mapVars, extVars, probs, n_, alias_,
                 prob_,
                 scaledProbs, small, large, spc>>

SamplerNext ==
  \/ SamplerCheck
  \/ SamplerStep5
  \/ SamplerStep6
  \/ SamplerStep7
  \/ Sample

\* the entries a probability vector is made of: below, at and above 0, and
\* such that sums below, at the ends of, inside and above [0.9999, 1.0001] occur
ProbValues ==
  {Frac(v, 10000) :
     v \in {-1, 0, 1, 2500, 4999, 5000, 5001, 7500, 9999, 10000}}

\* the member initialisers of the constructor, before init_alias_table
SamplerInit ==
  /\ NoLoop
  /\ IdleMap
  /\ IdleExt
  /\ \E n \in 0..MaxClasses : probs \in [1..n -> ProbValues]
  /\ n_ = Len(probs)
  /\ alias_ = [k \in 1..Len(probs) |-> 0]
  /\ prob_ = [k \in 1..Len(probs) |-> Real(0)]
  /\ scaledProbs = <<>>
  /\ small = <<>>
  /\ large = <<>>
  /\ spc = "check"
  /\ sampled = [bucket |-> 0, r |-> Real(0), value |-> 0]
  /\ nsamples = 0

SpecSampler == SamplerInit /\ [][SamplerNext]_vars

\* ------------------------------------- the vocabulary, Reader::parseline
\* Bytes of a line: a letter, the letter the UNK string is made of, the
\* delimiter and the end of line.
SP == " "
NL == "\n"
Chars == {"a", "U", SP}

\* UNKSTR, and the words a vocabulary is made of
UNK == <<"U">>
VocabWords == {<<"a">>, <<"a", "a">>, UNK}

\* sequences without repetition of at most n words
DistinctSeqs(n) ==
  {v \in UNION {[1..k -> VocabWords] : k \in 0..n} :
     \A a, b \in 1..Len(v) : a # b => v[a] # v[b]}

\* std::vector::resize(n) of a vector longer than n
Resize(v, n) == SubSeq(v, 1, n)

\* main(), vocabulary built from the corpus: UNK first unless discard, then
\* the words of freqs that reach min_count, then the cut to vocab_size
BuildVocab(discard, counted, vocab_size) ==
  LET all == (IF discard THEN <<>> ELSE <<UNK>>) \o counted
  IN  IF vocab_size < Len(all) THEN Resize(all, vocab_size) ELSE all

\* load_vocab_file: any words, UNKSTR on the first line only
VocabFiles ==
  {v \in UNION {[1..k -> VocabWords] : k \in 0..MaxVocab} :
     \A k \in 2..Len(v) : v[k] # UNK}

\* main(), vocabulary loaded: discard is set from ordered_vocab.front(), which
\* is undefined for an empty vector
LoadDiscard(file) ==
  IF file = <<>> THEN BOOLEAN ELSE {file[1] # UNK}

\* the bytes one gets() puts into the buffer: at least one byte, ending with
\* the end of line unless the line is over-long or the last of a file without
\* a final end of line
RawLines ==
  {c \o eol : c \in UNION {[1..k -> Chars] : k \in 0..MaxLineLen},
              eol \in {<<>>, <<NL>>}} \ {<<>>}

\* std::find(beg, s.end(), delim), positions counted from 1
RECURSIVE Find(_, _, _)
Find(str, beg, delim) ==
  IF beg > Len(str) THEN Len(str) + 1
  ELSE IF str[beg] = delim THEN beg
  ELSE Find(str, beg + 1, delim)

\* split(ret, s, ' '): the non-empty runs between delimiters
RECURSIVE SplitFrom(_, _)
SplitFrom(str, beg) ==
  IF beg > Len(str) THEN <<>>
  ELSE LET end == Find(str, beg, SP)
       IN  (IF beg # end THEN <<SubSeq(str, beg, end - 1)>> ELSE <<>>)
           \o SplitFrom(str, end + 1)

split(str) == SplitFrom(str, 1)

\* std::string_view::remove_suffix(1)
RemoveSuffix(str) == SubSeq(str, 1, Len(str) - 1)

\* the state after the vocabulary was built or loaded
ParseInit ==
  /\ NoLoop
  /\ IdleMap
  /\ IdleSampler
  /\ IdleTrain
  /\ IdleAux
  /\ \E loaded \in BOOLEAN :
       IF loaded
       THEN /\ ordered_vocab \in VocabFiles
            /\ discard_ \in LoadDiscard(ordered_vocab)
       ELSE \E discard \in BOOLEAN, counted \in DistinctSeqs(MaxVocab),
               vocab_size \in 0..(MaxVocab + 1) :
              /\ ordered_vocab = BuildVocab(discard, counted, vocab_size)
              /\ discard_ = discard
  /\ ntable = 0
  /\ vocab_i = 0
  /\ via_readlines \in BOOLEAN
  /\ raw \in RawLines
  /\ line_arg = <<>>
  /\ words_ = <<>>
  /\ parsed = <<>>
  /\ word_t = 0
  /\ ppc = "vocab"

\* main(): one round of the loop that fills word_map, table and ctx
VocabInsert ==
  /\ ppc = "vocab"
  /\ vocab_i < Len(ordered_vocab)
  /\ Insert(ordered_vocab[vocab_i + 1])
  /\ ntable' = ntable + 1
  /\ vocab_i' = vocab_i + 1
  /\ UNCHANGED <<loopAll, kernelVars, samplerVars, trainVars, auxVars, before, ops,
                 ordered_vocab,
                 discard_, via_readlines, raw, line_arg, words_, parsed,
                 word_t, ppc>>

\* main(): the loop over prob.size() calls reverse_lookup(w) for every row,
\* which throws for a row past the end of the map; an AliasSampler of no
\* classes is rejected by its constructor
ProbsSetup ==
  /\ ppc = "vocab"
  /\ vocab_i >= Len(ordered_vocab)
  /\ ppc' = IF \/ \E w \in 0..(Len(ordered_vocab) - 1) : reverse_lookup(w).throws
               \/ Len(ordered_vocab) = 0
            THEN "aborted" ELSE "read"
  /\ UNCHANGED <<loopAll, kernelVars, samplerVars, mapVars, trainVars, auxVars,
                 ordered_vocab,
                 discard_, ntable, vocab_i, via_readlines, raw, line_arg,
                 words_, parsed, word_t>>

\* readlines removes the last byte before it calls f(line); the parser thread
\* of AsyncReader passes the buffer as gets() filled it
ReadLine ==
  /\ ppc = "read"
  /\ line_arg' = IF via_readlines THEN RemoveSuffix(raw) ELSE raw
  /\ ppc' = "split"
  /\ UNCHANGED <<loopAll, kernelVars, samplerVars, mapVars, trainVars, auxVars,
                 ordered_vocab,
                 discard_, ntable, vocab_i, via_readlines, raw, words_,
                 parsed, word_t>>

\* parseline: words_.clear(); split(words_, line, ' ')
ParseSplit ==
  /\ ppc = "split"
  /\ words_' = split(line_arg)
  /\ parsed' = <<>>
  /\ word_t' = 0
  /\ ppc' = "tokens"
  /\ UNCHANGED <<loopAll, kernelVars, samplerVars, mapVars, trainVars, auxVars,
                 ordered_vocab,
                 discard_, ntable, vocab_i, via_readlines, raw, line_arg>>

\* parseline: what one round of the loop appends to s for the token `word`, and
\* whether word_map_.lookup(UNK) threw
PushToken(word) ==
  IF has(word) THEN [throws |-> FALSE, out |-> <<k2i_[word]>>]
  ELSE IF discard_ THEN [throws |-> FALSE, out |-> <<>>]
  ELSE [throws |-> lookup(UNK).throws,
        out |-> IF lookup(UNK).throws THEN <<>> ELSE <<lookup(UNK).value>>]

\* parseline: one round of the loop over words_
ParseToken ==
  /\ ppc = "tokens"
  /\ word_t < Len(words_)
  /\ LET r == PushToken(words_[word_t + 1])
     IN  /\ parsed' = parsed \o r.out
         /\ ppc' = IF r.throws THEN "aborted" ELSE "tokens"
  /\ word_t' = word_t + 1
  /\ UNCHANGED <<loopAll, kernelVars, samplerVars, mapVars, trainVars, auxVars,
                 ordered_vocab,
                 discard_, ntable, vocab_i, via_readlines, raw, line_arg,
                 words_>>

\* parseline: return s
ParseReturn ==
  /\ ppc = "tokens"
  /\ word_t >= Len(words_)
  /\ ppc' = "parsed"
  /\ UNCHANGED <<loopAll, kernelVars, samplerVars, mapVars, trainVars, auxVars,
                 ordered_vocab,
                 discard_, ntable, vocab_i, via_readlines, raw, line_arg,
                 words_, parsed, word_t>>

ParseNext ==
  \/ VocabInsert
  \/ ProbsSetup
  \/ ReadLine
  \/ ParseSplit
  \/ ParseToken
  \/ ParseReturn

SpecParse == ParseInit /\ [][ParseNext]_vars

\* ------------------------------------ main: the subsampling probabilities
\* A Real that is not finite is a fraction with denominator 0: <<1, 0>> and
\* <<-1, 0>> are the infinities, <<0, 0>> is NaN.
IsFinite(x) == x[2] # 0
NonFinite == {<<-1, 0>>, <<0, 0>>}

\* the largest q in lo..(hi - 1) with q * q <= v
RECURSIVE ISqrt(_, _, _)
ISqrt(v, lo, hi) ==
  IF hi - lo <= 1 THEN lo
  ELSE LET mid == (lo + hi) \div 2
       IN  IF mid <= v \div mid THEN ISqrt(v, mid, hi) ELSE ISqrt(v, lo, mid)

\* sqrt(x) of a finite x >= 0, rounded down to a multiple of 1 / SqrtScale
SqrtScale == 100
sqrt(x) ==
  LET v == (x[1] * SqrtScale * SqrtScale) \div x[2]
  IN  Frac(ISqrt(v, 0, v + 1), SqrtScale)

\* `if (not discard) { freqs[UNKSTR] = 0; }` and freqs.at(reverse_lookup(w))
CountOf(w) ==
  IF ~discard_ /\ ordered_vocab[w + 1] = UNK THEN 0
  ELSE freqs[ordered_vocab[w + 1]]

\* 1. - sqrt(downsample_th / p) - downsample_th / p without the first division
\* by tot
DiscardProbOfCount(p) ==
  Sub(Sub(Real(1), sqrt(Div(downsample_th, p))), Div(downsample_th, p))
\* `p = p / tot; p = 1. - sqrt(downsample_th / p) - downsample_th / p;` for a
\* word that has a count: p / tot is finite and above 0
DiscardProb(p) ==
  LET q == Div(p, Real(tot))
  IN  Sub(Sub(Real(1), sqrt(Div(downsample_th, q))), Div(downsample_th, q))

\* the same for any count: a count of 0 makes p / tot zero or 0 / 0 and the
\* quotient downsample_th / p an infinity or NaN, which the build (-Ofast)
\* does not handle in one defined way
DiscardProbs(p) ==
  IF p[1] = 0 \/ tot = 0 THEN NonFinite ELSE {DiscardProb(p)}

\* the loop `for (Word w = 0; w < prob.size(); w++)`
ProbCount ==
  /\ fpc = "count"
  /\ IF prob_w < Len(prob)
     THEN /\ prob' = [prob EXCEPT ![prob_w + 1] = Real(CountOf(prob_w))]
          /\ tot' = tot + CountOf(prob_w)
          /\ prob_w' = prob_w + 1
          /\ fpc' = fpc
     ELSE /\ prob_w' = 0
          /\ fpc' = "filter"
          /\ UNCHANGED <<prob, tot>>
  /\ UNCHANGED <<loopAll, kernelVars, mapVars, samplerVars, parseVars,
                 trainVars, lrVars, sgVars, raceVars, freqs, downsample_th>>

\* the loop `for (auto& p : prob)`
ProbFilter ==
  /\ fpc = "filter"
  /\ prob_w < Len(prob)
  /\ \E v \in DiscardProbs(prob[prob_w + 1]) :
       prob' = [prob EXCEPT ![prob_w + 1] = v]
  /\ prob_w' = prob_w + 1
  /\ UNCHANGED <<loopAll, kernelVars, mapVars, samplerVars, parseVars,
                 trainVars, lrVars, sgVars, raceVars, freqs, downsample_th, tot, fpc>>

\* `Trainer trainer(params, table, ctx, prob, neg_prob);` filter_probs_(filter_probs)
ProbPass ==
  /\ fpc = "filter"
  /\ prob_w >= Len(prob)
  /\ filter_probs_' = prob
  /\ fpc' = "passed"
  /\ UNCHANGED <<loopAll, kernelVars, mapVars, samplerVars, parseVars,
                 gens_, neg_samplers_, ctxs, stream, busy, tpc, run, initial,
                 first, trainHist, lrVars, sgVars, raceVars, freqs, downsample_th, tot, prob, prob_w>>

ProbNext ==
  \/ ProbCount
  \/ ProbFilter
  \/ ProbPass

\* the counts of the words and the thresholds: a rare and a frequent word, the
\* default threshold 1e-3 and larger ones
CountValues == {1, 10, 1000}
ThresholdValues == {Frac(1, 1000), Frac(1, 4), Real(1)}

\* a vocabulary built from the corpus is sorted by decreasing count after UNK
SortedByCount(v, f, from) ==
  \A a \in from..Len(v) : \A b \in from..Len(v) : a < b => f[v[a]] >= f[v[b]]

\* the state after the vocabulary was built or loaded: `prob(ordered_vocab.size())`
ProbInit ==
  /\ NoLoop
  /\ IdleMap
  /\ IdleSampler
  /\ IdleTrain
  /\ \E loaded \in BOOLEAN :
       IF loaded
       THEN /\ ordered_vocab \in VocabFiles
            /\ discard_ \in LoadDiscard(ordered_vocab)
            /\ freqs \in [Range(ordered_vocab) -> CountValues]
       ELSE \E discard \in BOOLEAN, counted \in DistinctSeqs(MaxVocab) :
              /\ ordered_vocab = BuildVocab(discard, counted, Len(counted) + 1)
              /\ discard_ = discard
              /\ freqs \in [Range(ordered_vocab) -> CountValues]
              /\ SortedByCount(ordered_vocab, freqs, IF discard THEN 1 ELSE 2)
  /\ ntable = Len(ordered_vocab)
  /\ vocab_i = Len(ordered_vocab)
  /\ via_readlines = FALSE
  /\ raw = <<>>
  /\ line_arg = <<>>
  /\ words_ = <<>>
  /\ parsed = <<>>
  /\ word_t = 0
  /\ ppc = "idle"
  /\ downsample_th \in ThresholdValues
  /\ tot = 0
  /\ prob = [w \in 1..Len(ordered_vocab) |-> Real(0)]
  /\ prob_w = 0
  /\ fpc = "count"
  /\ IdleLr
  /\ IdleSg
  /\ IdleRace

SpecProbs == ProbInit /\ [][ProbNext]_vars

\* ------------------------------------------ main: the learning rate
\* what no step of the schedule changes
lrFrame == <<cfgVars, asyncVars, onceVars, pc, ret, perm, runVars, readerHist,
             calls, fby, trained, ntrain, kernelVars, mapVars, samplerVars,
             parseVars, trainVars, probVars, sgVars, raceVars,
             start_lr_schedule_epoch,
             total_sentences, init_lr, min_lr, corpus_sentences>>

\* the three KOAN_ASSERTs on the epochs, with max_lr_schedule_epochs as it is
\* after its default was filled in
Validated(max) ==
  /\ epochs > 0
  /\ max_lr_schedule_epochs = 0 \/ max_lr_schedule_epochs >= epochs
  /\ start_lr_schedule_epoch < max

\* "Validate arguments"
LrValidate ==
  /\ lpc = "validate"
  /\ LET max == IF max_lr_schedule_epochs = 0
                THEN start_lr_schedule_epoch + epochs
                ELSE max_lr_schedule_epochs
     IN  IF Validated(max)
         THEN /\ max_lr_schedule_epochs' = max
              /\ lpc' = "epoch"
         ELSE /\ lpc' = "rejected"
              /\ UNCHANGED max_lr_schedule_epochs
  /\ UNCHANGED <<lrFrame, e, global_i, sentences, fcalls, curr_lr, lrs>>

\* `for (size_t e = 0; e < epochs; e++)`: the test, and `size_t global_i = 0`
LrEpoch ==
  /\ lpc = "epoch"
  /\ IF e < epochs
     THEN /\ global_i' = 0
          /\ lpc' = "get"
     ELSE /\ lpc' = "finished"
          /\ UNCHANGED global_i
  /\ UNCHANGED <<lrFrame, e, sentences, fcalls, curr_lr, lrs,
                 max_lr_schedule_epochs>>

\* `while (reader->get_next(sentences))`: the reader delivers the next
\* sentences of the corpus, or the pass is over and the epoch ends
LrGetNext ==
  /\ lpc = "get"
  /\ IF global_i < corpus_sentences
     THEN /\ \E n \in 1..(corpus_sentences - global_i) :
               /\ n <= MaxBatch
               /\ sentences' = [k \in 1..n |-> <<>>]
               /\ fcalls' = [k \in 0..(n - 1) |-> 0]
          /\ lpc' = "work"
          /\ UNCHANGED e
     ELSE /\ e' = e + 1
          /\ lpc' = "epoch"
          /\ UNCHANGED <<sentences, fcalls>>
  /\ UNCHANGED <<lrFrame, global_i, curr_lr, lrs, max_lr_schedule_epochs>>

\* the linear learning rate scheduling of work(i, tid)
LrSched(i_) ==
  Add(Div(Real(e + start_lr_schedule_epoch), Real(max_lr_schedule_epochs)),
      Div(Div(Real(i_ + global_i), Real(total_sentences)),
          Real(max_lr_schedule_epochs)))

LearningRate(i_) ==
  IF total_sentences > 0
  THEN Sub(init_lr, Mul(Sub(init_lr, min_lr), LrSched(i_)))
  ELSE init_lr

\* work(i, tid) for an index of the batch, called by some worker of the
\* runner: `curr_lr = lr; trainer.train(s, tid, lr, cbow)`
LrWork ==
  /\ lpc = "work"
  /\ \E i_ \in DOMAIN fcalls :
       /\ fcalls[i_] = 0
       /\ curr_lr' = LearningRate(i_)
       /\ lrs' = lrs \cup {[e |-> e, n |-> i_ + global_i, lr |-> curr_lr']}
       /\ fcalls' = [fcalls EXCEPT ![i_] = 1]
  /\ UNCHANGED <<lrFrame, e, global_i, sentences, max_lr_schedule_epochs, lpc>>

\* the runner has returned: `global_i += sentences.size();`
LrAfter ==
  /\ lpc = "work"
  /\ \A i_ \in DOMAIN fcalls : fcalls[i_] = 1
  /\ global_i' = global_i + Len(sentences)
  /\ lpc' = "get"
  /\ UNCHANGED <<lrFrame, e, sentences, fcalls, curr_lr, lrs,
                 max_lr_schedule_epochs>>

LrNext ==
  \/ LrValidate
  \/ LrEpoch
  \/ LrGetNext
  \/ LrWork
  \/ LrAfter

\* the learning rates: the defaults 0.025 and 1e-4, and a constant rate
LrOptions == {<<Frac(1, 40), Frac(1, 10000)>>, <<Frac(1, 40), Frac(1, 40)>>}

\* the options as parsed from the command line, and a corpus
LrInit ==
  /\ NoReader
  /\ IdleKernel
  /\ IdleMap
  /\ IdleSampler
  /\ IdleParse
  /\ IdleTrain
  /\ IdleProb
  /\ IdleSg
  /\ IdleRace
  /\ pc = "idle"
  /\ sentences = <<>>
  /\ num_threads = 1
  /\ epochs \in 0..MaxEpochs
  /\ partitioned = FALSE
  /\ shuffle = FALSE
  /\ e = 0
  /\ global_i = 0
  /\ perm = <<>>
  /\ i = 0
  /\ ti = 0
  /\ wpc = <<"none">>
  /\ wi = <<0>>
  /\ wend = <<0>>
  /\ wtid = <<0>>
  /\ fcalls = <<>>
  /\ fby = <<>>
  /\ trained = <<>>
  /\ ntrain = 0
  /\ start_lr_schedule_epoch \in 0..MaxEpochs
  /\ max_lr_schedule_epochs \in 0..(MaxEpochs + 1)
  /\ corpus_sentences \in 1..MaxSentences
  /\ total_sentences \in {0, corpus_sentences}
  /\ \E o \in LrOptions : init_lr = o[1] /\ min_lr = o[2]
  /\ curr_lr = <<0, 1>>
  /\ lrs = {}
  /\ lpc = "validate"

SpecLr == LrInit /\ [][LrNext]_vars

\* --------------------------------- two threads and one row of the table
\* The last loop of cbow_update, `*source -= source_idx_grad`, run by two
\* threads of the runner, each for a context word of its own sentence. The
\* row is an Eigen vector in a std::vector shared by the threads: the
\* statement reads the row, subtracts and writes the row back, with no lock
\* and no atomic operation.
Racers == {1, 2}

\* what no step of the two threads changes
raceFrame == <<loopAll, mapVars, samplerVars, parseVars, trainVars, probVars,
               lrVars, sgVars, ctx_, use_bad_update, negatives, sent,
               center_idx, left, right, lr, kpc, avg, source_idx_grad,
               sources, neg_i, table_orig, ctx_orig, terms, draws, source,
               grad>>

\* a read-modify-write in one step, as an atomic subtraction would do it
StoredAtomically(t) == VSub(table_[source[t]], grad[t])
\* the row thread t writes: the row it read less its gradient
Stored(t) == VSub(fetched[t], grad[t])

\* thread t reads the row
RaceLoad(t) ==
  /\ rpc[t] = "load"
  /\ fetched' = [fetched EXCEPT ![t] = table_[source[t]]]
  /\ rpc' = [rpc EXCEPT ![t] = "store"]
  /\ overlapped' = (overlapped \/ \E u \in Racers \ {t} :
                                     rpc[u] = "store" /\ source[u] = source[t])
  /\ UNCHANGED <<raceFrame, table_, stores>>

\* thread t writes the row
RaceStore(t) ==
  /\ rpc[t] = "store"
  /\ table_' = [table_ EXCEPT ![source[t]] = Stored(t)]
  /\ rpc' = [rpc EXCEPT ![t] = "done"]
  /\ stores' = Append(stores, t)
  /\ UNCHANGED <<raceFrame, fetched, overlapped>>

RaceNext ==
  \/ \E t \in Racers : RaceLoad(t)
  \/ \E t \in Racers : RaceStore(t)

\* the gradients of the threads
GradValues == {Real(0), Frac(1, 4), Frac(-1, 2)}

\* both threads are about to update the row of their context word
RaceInit ==
  /\ NoReader
  /\ IdleRunner
  /\ IdleMap
  /\ IdleSampler
  /\ IdleParse
  /\ IdleTrain
  /\ IdleProb
  /\ IdleLr
  /\ IdleSg
  /\ pc = "idle"
  /\ sentences = <<>>
  /\ \E v \in TableValues : table_ = [w \in Words |-> [k \in 1..Dim |-> Real(v + w)]]
  /\ ctx_ = [w \in Words |-> Zero]
  /\ use_bad_update = FALSE
  /\ negatives = 0
  /\ sent = <<>>
  /\ center_idx = 0
  /\ left = 0
  /\ right = 0
  /\ lr = <<0, 1>>
  /\ kpc = "idle"
  /\ avg = <<>>
  /\ source_idx_grad = <<>>
  /\ sources = <<>>
  /\ neg_i = 0
  /\ table_orig = table_
  /\ ctx_orig = ctx_
  /\ terms = <<>>
  /\ draws = <<>>
  /\ source \in [Racers -> Words]
  /\ grad \in [Racers -> [1..Dim -> GradValues]]
  /\ fetched = [t \in Racers |-> Zero]
  /\ rpc = [t \in Racers |-> "load"]
  /\ overlapped = FALSE
  /\ stores = <<>>

SpecRace == RaceInit /\ [][RaceNext]_vars

\* ------------------------------------------- Trainer, two training runs
\* Trainer::Trainer: gens_.emplace_back(123457 + i) for thread i; every
\* element of neg_samplers_ is a copy of one AliasSampler, whose rng_ is a
\* default-constructed std::minstd_rand (seed 1); set_seed is never called.
\* The state of a generator is its seed and the number of values taken from it.
GensSeed == 123457
DefaultSeed == 1
Gens(n) == [t \in 1..n |-> [seed |-> GensSeed + (t - 1), n |-> 0]]
NegSamplers(n) == [t \in 1..n |-> [seed |-> DefaultSeed, n |-> 0]]

\* The value a generator returns is a function of its seed and of the number
\* of values taken from it before, the same function in both runs; which
\* function is left open among a few.
Streams == {"zero", "one", "count", "seed"}
Rand(g, k) ==
  CASE stream = "zero" -> 0
    [] stream = "one" -> RandRange - 1
    [] stream = "count" -> (g.n + k) % RandRange
    [] stream = "seed" -> (g.seed + g.n + k) % RandRange

\* dists_[tid](gens_[tid]): a Real in [0, 1)
Uniform(v) == Frac(v, RandRange)

\* train: the words of sent_raw kept by the downsampling, word k of the
\* sentence being tested against the k-th value of generator g
RECURSIVE FilterFrom(_, _, _)
FilterFrom(sent_raw, k, g) ==
  IF k > Len(sent_raw) THEN <<>>
  ELSE (IF ~Less(Uniform(Rand(g, k - 1)), filter_probs_[sent_raw[k]])
        THEN <<sent_raw[k]>> ELSE <<>>)
       \o FilterFrom(sent_raw, k + 1, g)

\* train: the window of a center: ctxs, left and right
Window(v) == 1 + (v % ctxs)
\* the subtraction without the test `center_idx > ctxs`
LeftUnguarded(c, w) == c - w
Left(c, w) == IF c > w THEN c - w ELSE 0
Right(c, w, n) == IF c + w + 1 < n THEN c + w + 1 ELSE n

\* neg_samplers_[tid].sample(): a class chosen by the values of rng_
SampleWord(v) == v % VocabSize

\* thread t: work(i, tid) up to the loop over the centers of Trainer::train
TrainEnter(t) ==
  /\ wpc[t] = "work"
  /\ busy = 0
  /\ LET sent_raw == WorkSentence(wi[t])
         g == gens_[t]
     IN  /\ sent' = FilterFrom(sent_raw, 1, g)
         /\ gens_' = [gens_ EXCEPT ![t].n = @ + Len(sent_raw)]
  /\ center_idx' = 0
  /\ busy' = t
  /\ tpc' = "center"
  /\ updates' = <<>>
  /\ UNCHANGED <<remaining_toks, loopAll, mapVars, samplerVars, parseVars, auxVars, neg_samplers_,
                 filter_probs_, ctxs, stream, run, initial, first, table_,
                 ctx_, use_bad_update, negatives, left, right, lr, kpc, avg,
                 source_idx_grad, sources, neg_i, table_orig, ctx_orig, terms,
                 draws>>

\* train: the head of the loop over the centers: the window is drawn and
\* cbow_update is entered
TrainCenter ==
  /\ tpc = "center"
  /\ center_idx < Len(sent)
  /\ LET w == Window(Rand(gens_[busy], 0))
     IN  /\ left' = Left(center_idx, w)
         /\ right' = Right(center_idx, w, Len(sent))
         /\ updates' = Append(updates, [center_idx |-> center_idx, ctxs |-> w,
                                        left |-> left', right |-> right'])
  /\ gens_' = [gens_ EXCEPT ![busy].n = @ + 1]
  /\ avg' = Zero
  /\ source_idx_grad' = Zero
  /\ sources' = <<>>
  /\ neg_i' = 0
  /\ table_orig' = table_
  /\ ctx_orig' = ctx_
  /\ terms' = <<>>
  /\ draws' = <<>>
  /\ kpc' = "collect"
  /\ tpc' = "update"
  /\ UNCHANGED <<remaining_toks, loopAll, mapVars, samplerVars, parseVars, auxVars, neg_samplers_,
                 filter_probs_, ctxs, stream, busy, run, initial, first,
                 table_, ctx_, use_bad_update, negatives, sent, center_idx,
                 lr>>

\* cbow_update called by train: the negative is drawn from the sampler of the
\* thread
TrainNegative ==
  /\ tpc = "update"
  /\ NegativeStep(SampleWord(Rand(neg_samplers_[busy], 0)))
  /\ neg_samplers_' = [neg_samplers_ EXCEPT ![busy].n = @ + 1]
  /\ UNCHANGED <<mapVars, samplerVars, parseVars, auxVars, gens_, filter_probs_, ctxs,
                 stream, busy, tpc, run, initial, first, trainHist>>

\* train: cbow_update has returned; center_idx++
TrainAdvance ==
  /\ tpc = "update"
  /\ kpc = "done"
  /\ center_idx' = center_idx + 1
  /\ kpc' = "idle"
  /\ tpc' = "center"
  /\ UNCHANGED <<trainHist, loopAll, mapVars, samplerVars, parseVars, auxVars, gens_,
                 neg_samplers_, filter_probs_, ctxs, stream, busy, run,
                 initial, first, table_, ctx_, use_bad_update, negatives, sent,
                 left, right, lr, avg, source_idx_grad, sources, neg_i,
                 table_orig, ctx_orig, terms, draws>>

\* train returns and so does work(i, tid): the thread is back in its runner
TrainReturn ==
  /\ tpc = "center"
  /\ center_idx >= Len(sent)
  /\ wpc' = [wpc EXCEPT ![busy] = "fetch"]
  /\ wi' = [wi EXCEPT ![busy] = IF partitioned THEN @ + 1 ELSE @]
  /\ trained' = [trained EXCEPT ![WorkSentence(wi[busy])] = @ + 1]
  /\ ntrain' = ntrain + 1
  /\ busy' = 0
  /\ tpc' = "idle"
  /\ remaining_toks' = Len(sent)
  /\ UNCHANGED <<updates, kernelVars, mapVars, samplerVars, parseVars, auxVars, gens_,
                 neg_samplers_, filter_probs_, ctxs, stream, run, initial,
                 first, cfgVars, asyncVars, onceVars, callerVars, loopVars,
                 i, ti, wend, wtid, readerHist, calls, fcalls, fby>>

\* the runner has returned. The first run ends here and the second one starts
\* from the same tables, parameters and seeds; the second run ends here too.
RunEnd ==
  /\ pc = "ran"
  /\ IF run = 1
     THEN /\ first' = <<table_, ctx_>>
          /\ table_' = initial[1]
          /\ ctx_' = initial[2]
          /\ gens_' = Gens(num_threads)
          /\ neg_samplers_' = NegSamplers(num_threads)
          /\ trained' = [x \in DOMAIN trained |-> 0]
          /\ run' = 2
          /\ pc' = "dispatch"
     ELSE /\ pc' = "finished"
          /\ UNCHANGED <<first, table_, ctx_, gens_, neg_samplers_, trained,
                         run>>
  /\ UNCHANGED <<trainHist, mapVars, samplerVars, parseVars, auxVars, filter_probs_, ctxs, stream,
                 busy, tpc, initial, cfgVars, asyncVars, onceVars, sentences,
                 ret, loopVars, runVars, readerHist, calls, fcalls, fby,
                 ntrain, use_bad_update, negatives, sent, center_idx, left,
                 right, lr, kpc, avg, source_idx_grad, sources, neg_i,
                 table_orig, ctx_orig, terms, draws>>

TrainNext ==
  \/ RunnerEnter
  \/ Spawn
  \/ Join
  \/ \E t \in Workers : PfFetch(t)
  \/ \E t \in Workers : PpCheck(t)
  \/ \E t \in Workers : TrainEnter(t)
  \/ TrainCenter
  \/ CbowCollect
  \/ CbowPositive
  \/ TrainNegative
  \/ CbowApply
  \/ TrainAdvance
  \/ TrainReturn
  \/ RunEnd

\* the batches the runs are made on, the downsampling probabilities (none, or
\* one half for every word), and the tables as main() leaves them: ctx zero,
\* table with entries of magnitude at most 0.5 / dim
TrainBatches == {<<<<0, 1>>, <<1, 0>>>>, <<<<0, 1>>, <<1>>, <<2, 1>>>>, <<<<0, 1, 2>>>>}
FilterValues == {Real(0), Frac(1, 2)}
InitialTable == [w \in Words |-> [k \in 1..Dim |-> Frac(w + 1, 2 * VocabSize)]]
InitialCtx == [w \in Words |-> Zero]

TrainInit ==
  /\ NoReader
  /\ IdleMap
  /\ IdleSampler
  /\ IdleParse
  /\ IdleAux
  /\ sentences \in TrainBatches
  /\ num_threads \in 1..MaxThreads
  /\ partitioned \in BOOLEAN
  /\ shuffle = FALSE
  /\ perm = Iota(Len(sentences))
  /\ epochs = 1
  /\ e = 0
  /\ global_i = 0
  /\ i = 0
  /\ ti = 0
  /\ wpc = [t \in Workers |-> "none"]
  /\ wi = [t \in Workers |-> 0]
  /\ wend = [t \in Workers |-> 0]
  /\ wtid = [t \in Workers |-> 0]
  /\ fcalls = <<>>
  /\ fby = <<>>
  /\ trained = [x \in Range(sentences) |-> 0]
  /\ ntrain = 0
  /\ pc = "dispatch"
  /\ table_ = InitialTable
  /\ ctx_ = InitialCtx
  /\ use_bad_update = FALSE
  /\ negatives \in 0..1
  /\ sent = <<>>
  /\ center_idx = 0
  /\ left = 0
  /\ right = 0
  /\ lr \in LrValues
  /\ kpc = "idle"
  /\ avg = Zero
  /\ source_idx_grad = Zero
  /\ sources = <<>>
  /\ neg_i = 0
  /\ table_orig = table_
  /\ ctx_orig = ctx_
  /\ terms = <<>>
  /\ draws = <<>>
  /\ gens_ = Gens(num_threads)
  /\ neg_samplers_ = NegSamplers(num_threads)
  /\ filter_probs_ \in {[w \in Words |-> p] : p \in FilterValues}
  /\ ctxs \in 1..MaxCtxs
  /\ stream \in Streams
  /\ busy = 0
  /\ tpc = "idle"
  /\ run = 1
  /\ initial = <<table_, ctx_>>
  /\ first = <<>>
  /\ updates = <<>>
  /\ remaining_toks = 0

SpecTrain == TrainInit /\ [][TrainNext]_vars

\* ------------------------------------------------------ kernel properties
\* the number of context positions of the call that hold word w
Multiplicity(w) == Cardinality({p \in SourceIdx : sent[p + 1] = w})

\* The loss the call returns is -log(p) for the positive sample plus
\* -log(1 - q) for every processed negative one, p and q being the sigmoid of
\* avg . row. With d(-log s(x))/dx = s(x) - 1 and d(-log(1 - s(x)))/dx = s(x),
\* the derivative of a term in avg is (p - 1) * u, respectively q * w, the row
\* being the one the term was computed from.
LossTermGradient(t) ==
  VMul(t.row, IF t.positive THEN Sub(t.p, Real(1)) ELSE t.p)

RECURSIVE AvgGradientFrom(_)
AvgGradientFrom(k) ==
  IF k > Len(terms) THEN Zero
  ELSE VAdd(LossTermGradient(terms[k]), AvgGradientFrom(k + 1))

\* the derivative of the loss in avg, and in the row of one context position
\* (avg is the sum of the K context rows divided by K)
AvgGradient == AvgGradientFrom(1)
ContextGradient == VDiv(AvgGradient, Real(Cardinality(SourceIdx)))

RECURSIVE Times(_, _)
Times(n, v) == IF n = 0 THEN Zero ELSE VAdd(v, Times(n - 1, v))

\* C1: a finished cbow_update call with K >= 1 context positions has
\* subtracted from the table row of every context position the same vector g,
\* once per position, and has changed no other table row. In default mode
\* g = (1/K) * [(p-1)*lr*u + the sum over the processed negatives of q*lr*w],
\* u and w being the ctx rows as read before their own update in the call,
\* which is lr times the gradient of the loss in a context row; in bad-update
\* mode the factor 1/K is missing.
C1_CbowSubtractsNormalizedGradient ==
  (kpc = "done" /\ Cardinality(SourceIdx) >= 1) =>
    LET g == IF use_bad_update THEN VMul(AvgGradient, lr)
                               ELSE VMul(ContextGradient, lr)
    IN  /\ source_idx_grad = g
        /\ \A w \in Words :
             table_[w] = VSub(table_orig[w], Times(Multiplicity(w), g))

\* a default-mode call with two context positions, a positive term and a
\* processed negative term has finished and has moved the context rows
C1_Witness ==
  /\ kpc = "done"
  /\ ~use_bad_update
  /\ Cardinality(SourceIdx) >= 2
  /\ Len(terms) >= 2
  /\ AvgGradient # Zero
  /\ \E w \in Words : table_[w] # table_orig[w]

\* the ctx table after the writes of the first k samples of the call, from the
\* rows the call began with
RECURSIVE CtxAfter(_)
CtxAfter(k) ==
  IF k = 0 THEN ctx_orig
  ELSE LET t == terms[k]
           c == IF t.positive THEN Mul(Sub(t.p, Real(1)), lr) ELSE Mul(t.p, lr)
           written == IF t.positive THEN Less(t.p, Real(1)) ELSE Less(Real(0), t.p)
       IN  IF written
           THEN [CtxAfter(k - 1) EXCEPT ![t.word] = VSub(@, VMul(avg, c))]
           ELSE CtxAfter(k - 1)

\* the average of the context rows as they were when the call began
RECURSIVE SumAtEntry(_)
SumAtEntry(k) ==
  IF k > Len(sources) THEN Zero
  ELSE VAdd(table_orig[sources[k]], SumAtEntry(k + 1))

\* C23: within one cbow_update call with a context, avg is computed from the
\* table rows as they were before the call; the ctx row of the center token is
\* written before the first negative is drawn; every sample reads its ctx row
\* as the earlier samples of the call left it and its own write is in the table
\* at once; the table rows of the context words are written only after the last
\* negative, once per context position.
C23_WritesInOrder ==
  /\ kpc \in {"collect", "positive"} => (draws = <<>> /\ ctx_ = ctx_orig)
  /\ kpc # "done" => table_ = table_orig
  /\ (kpc \in {"positive", "negative", "done"} /\ Len(sources) >= 1) =>
       avg = VDiv(SumAtEntry(1), Real(Len(sources)))
  /\ (kpc \in {"negative", "done"} /\ Len(sources) >= 1) =>
       /\ Len(terms) >= 1
       /\ terms[1].positive
       /\ ctx_ = CtxAfter(Len(terms))
       /\ \A k \in 1..Len(terms) : terms[k].row = CtxAfter(k - 1)[terms[k].word]
  /\ (kpc = "done" /\ Len(sources) >= 1) =>
       /\ neg_i = negatives
       /\ \A w \in Words :
            table_[w] = VSub(table_orig[w], Times(Multiplicity(w), source_idx_grad))

\* a finished call whose second negative read a row that an earlier sample of
\* the call had written, and which moved a context row
C23_Witness ==
  /\ kpc = "done"
  /\ Len(terms) = 3
  /\ \E j \in 1..2 : /\ terms[j].word = terms[3].word
                      /\ terms[3].row # ctx_orig[terms[3].word]
  /\ \E w \in Words : table_[w] # table_orig[w]

\* C16: when a call with at least one context position has finished, every
\* drawn negative was skipped exactly when it equals the center token
\* sent[center_idx], every other drawn negative was processed, and the call
\* made exactly `negatives` draws
C16_SkipsCenterToken ==
  (kpc = "done" /\ Cardinality(SourceIdx) >= 1) =>
    /\ Len(draws) = negatives
    /\ \A k \in 1..Len(draws) :
         draws[k].processed <=> (draws[k].word # sent[center_idx + 1])

\* the words at the context positions, and the words drawn and processed
ContextTokens == {sent[p + 1] : p \in SourceIdx}
DrawnWords == {draws[k].word : k \in 1..Len(draws)}
ProcessedWords == {draws[k].word : k \in {j \in 1..Len(draws) : draws[j].processed}}

\* C24: a cbow_update call writes only the ctx rows of the center token and of
\* the processed negatives and the table rows of the context tokens; an
\* sg_update call writes only the table row of the center token, once and at
\* its end, and the ctx rows of the target tokens and of the drawn negatives.
\* Every other row is unchanged, both tables keep their rows and every row its
\* dimension, and a cbow_update call without a context position changes
\* nothing and draws no sample.
C24_UpdatesWriteOnlyTheirRows ==
  /\ DOMAIN table_ = Words
  /\ DOMAIN ctx_ = Words
  /\ \A w \in Words : DOMAIN table_[w] = 1..Dim /\ DOMAIN ctx_[w] = 1..Dim
  /\ cbow =>
       /\ \A w \in Words \ ContextTokens : table_[w] = table_orig[w]
       /\ \A w \in Words \ ({sent[center_idx + 1]} \cup ProcessedWords) :
            ctx_[w] = ctx_orig[w]
       /\ SourceIdx = {} =>
            (table_ = table_orig /\ ctx_ = ctx_orig /\ draws = <<>>)
  /\ ~cbow =>
       /\ \A w \in Words \ (ContextTokens \cup DrawnWords) : ctx_[w] = ctx_orig[w]
       /\ kpc # "done" => table_ = table_orig
       /\ kpc = "done" =>
            table_ = [table_orig EXCEPT ![sent[center_idx + 1]] = VAdd(@, cw_local)]

\* an sg_update call with a target and a negative has finished: it has moved
\* the center's table row and a ctx row and has left another ctx row alone
C24_Witness ==
  /\ ~cbow
  /\ kpc = "done"
  /\ Len(draws) >= 1
  /\ table_[sent[center_idx + 1]] # table_orig[sent[center_idx + 1]]
  /\ \E w \in Words : ctx_[w] # ctx_orig[w]
  /\ \E w \in Words : ctx_[w] = ctx_orig[w]

\* a cbow_update call without a context position has finished
C24_WitnessNoContext ==
  /\ cbow
  /\ kpc = "done"
  /\ SourceIdx = {}
  /\ negatives >= 1

\* ------------------------------------------------------ runner properties
\* C2: parallel_for calls f(i, t) exactly once for every i in [0, M) and for no
\* other index, whatever the interleaving; every worker id is in [0, N); a
\* worker stops at the first index it fetches that is >= M.
C2_AtomicEachIndexOnce ==
  (~partitioned /\ pc \in {"spawn", "join", "ran"}) =>
    /\ \A k \in Indices : fcalls[k] <= (IF k < End THEN 1 ELSE 0)
    /\ \A k \in Indices : fby[k] \subseteq 0..(num_threads - 1)
    /\ \A t \in Workers : wpc[t] = "work" => wi[t] < End
    /\ \A t \in Workers : wpc[t] = "exit" => wi[t] >= End
    /\ pc = "ran" => \A k \in Indices : k < End => fcalls[k] = 1

C2_Witness ==
  /\ ~partitioned
  /\ pc = "ran"
  /\ End >= 2
  /\ num_threads >= 2
  /\ \E k \in Indices : fby[k] = {0}
  /\ \E k \in Indices : fby[k] = {1}

\* C3: parallel_for_partitioned gives worker t < N-1 the indices
\* [t*floor(M/N), (t+1)*floor(M/N)) and worker N-1 the indices
\* [(N-1)*floor(M/N), M): every index of [0, M) gets exactly one call, from the
\* worker whose slice holds it, also when M < N or M = 0.
InSlice(k, t) ==
  LET q == End \div num_threads
  IN  IF t < num_threads - 1 THEN t * q <= k /\ k < (t + 1) * q
      ELSE (num_threads - 1) * q <= k /\ k < End

C3_PartitionedSlices ==
  (partitioned /\ pc \in {"spawn", "join", "ran"}) =>
    /\ \A k \in Indices : fcalls[k] <= (IF k < End THEN 1 ELSE 0)
    /\ \A k \in Indices : \A t \in fby[k] : InSlice(k, t)
    /\ \A t \in Workers : wpc[t] = "work" => InSlice(wi[t], t - 1)
    /\ pc = "ran" => \A k \in Indices : k < End => fcalls[k] = 1

C3_Witness ==
  /\ partitioned
  /\ pc = "ran"
  /\ num_threads = 2
  /\ End = 3
  /\ fby[0] = {0}
  /\ fby[1] = {1}
  /\ fby[2] = {1}

C3_WitnessFewer ==
  /\ partitioned
  /\ pc = "ran"
  /\ End < num_threads
  /\ End >= 1
  /\ \A k \in 0..(End - 1) : fby[k] = {num_threads - 1}

\* --------------------------------------------------- batch loop properties
\* C4: a runner returns only after every worker has finished: outside a
\* dispatch no call of the work function runs or starts, so the work of a batch
\* is complete before global_i is advanced and before the next get_next, and
\* the sentence buffer is not replaced under a worker.
WorkerActive(t) == wpc[t] \in {"fetch", "work"}

C4_RunnerJoinsAll ==
  /\ pc \notin {"spawn", "join"} => \A t \in Workers : ~WorkerActive(t)
  /\ pc = "ran" => \A k \in Indices : k < End => fcalls[k] = 1

C4_Witness ==
  /\ pc = "gn_take"
  /\ num_threads = 2
  /\ \A t \in Workers : wpc[t] = "exit"
  /\ ntrain >= 2
  /\ reader_ = "joined"

\* C10: the batch loop terminates; get_next returns false exactly `epochs`
\* times; every sentence of the corpus is trained on exactly once per epoch.
NFalse == Cardinality({k \in 1..Len(rets) : ~rets[k]})
Finished == pc \in {"destroy", "d_join", "d_close", "done"}

C10_EpochAccounts ==
  /\ pc = "epoch" =>
       /\ NFalse = e
       /\ ntrain = e * Len(CorpusSentences)
       /\ e >= 1 => \A s \in DOMAIN trained : trained[s] = 1
  /\ Finished =>
       /\ e = epochs
       /\ NFalse = epochs
       /\ ntrain = epochs * Len(CorpusSentences)
       /\ \A s \in DOMAIN trained : trained[s] = 1

IsPrefix(s, t) == Len(s) <= Len(t) /\ \A k \in 1..Len(s) : s[k] = t[k]

\* a get_next call has just returned
Returned == pc = "returned"

\* the lines the sentences of a pass were parsed from
LinesOf(pass) == [k \in 1..Len(pass) |-> <<pass[k][1], pass[k][2]>>]

\* the parser thread may write read_buffer_, in_, path_idx_ and the EOF flags
ParserAlive == unjoined > 0

\* C5: streaming reader: the call right after the one that delivered the last
\* line of the pass returns false; no two false returns in a row; and after a
\* false return the delivery starts again at the first line of the first file.
C5_FalseRightAfterLastLine ==
  ~read_whole_data =>
    /\ (Returned /\ afterLast => ~ret)
    /\ \A k \in 1..(Len(rets) - 1) : rets[k] \/ rets[k + 1]
    /\ IsPrefix(passLog, CorpusSentences)

\* C6: streaming reader: the batches of one pass, concatenated, hold exactly one
\* sentence per line of the corpus, in file order and line order.
C6_OneSentencePerLine ==
  ~read_whole_data =>
    /\ IsPrefix(LinesOf(passLog), CorpusLines)
    /\ (Returned /\ ~ret => LinesOf(lastPass) = CorpusLines)

\* C7: streaming reader: a call that returns true delivers at least 1 and at
\* most buffer_size_ sentences.
C7_TrueMeansData ==
  (~read_whole_data /\ Returned /\ ret) =>
    (1 <= Len(sentences) /\ Len(sentences) <= buffer_size_)

C9_OneParserJoinedFirst ==
  ~read_whole_data =>
    /\ unjoined <= 1
    /\ (ParserAlive <=> reader_ \in {"running", "finished"})
    /\ (pc \in {"gn_take", "gn_start", "d_close", "done"} => ~ParserAlive)
    /\ (in_ = Closed => pc = "done")

C9_Witness ==
  /\ ~read_whole_data
  /\ pc = "d_close"
  /\ \E k \in 1..Len(rets) : ~rets[k]
  /\ \E k \in 1..Len(rets) : rets[k]

\* the pieces gets() returns are delivered once each per pass, in order
PassDeliversPieces ==
  ~read_whole_data =>
    /\ IsPrefix(passLog, CorpusSentences)
    /\ (Returned /\ ~ret => lastPass = CorpusSentences)


\* the line a sentence was parsed from is longer than the buffer of gets()
FromLongLine(sentence) == fnames_[sentence[1]][sentence[2]] > 1

\* C17: strict mode: no get_next call of either reader returns once a line
\* without a trailing newline within MAX_LINE_LEN bytes has been read, and no
\* sentence built from such a line is in a batch handed to the caller.
C17_StrictRejectsLongLines ==
  assert_no_long_lines_ =>
    /\ (Returned /\ ret) =>
         \A k \in 1..Len(sentences) : ~FromLongLine(sentences[k])
    /\ \A k \in 1..Len(passLog) : ~FromLongLine(passLog[k])

\* C18: strict mode off: every line yields exactly one sentence, built from its
\* first bytes; no sentence is built from the rest of an over-long line, and
\* a complete pass of either reader delivers as many sentences as the corpus
\* has lines.
C18_LongLineTruncated ==
  ~assert_no_long_lines_ =>
    /\ \A k \in 1..Len(passLog) : passLog[k][3] = 1
    /\ (Returned /\ ret /\ read_whole_data) =>
         Len(sentences) = Len(CorpusLines)
    /\ (Returned /\ ~ret /\ ~read_whole_data) =>
         Len(lastPass) = Len(CorpusLines)

\* ---------------------------------------------------- IndexMap properties
\* the distinct elements of a sequence, in the order of their first occurrence
RECURSIVE FirstOccurrences(_, _)
FirstOccurrences(seq, k) ==
  IF k = 0 THEN <<>>
  ELSE LET front == FirstOccurrences(seq, k - 1)
       IN  IF \E j \in 1..(k - 1) : seq[j] = seq[k] THEN front
           ELSE Append(front, seq[k])

Distinct(seq) == {seq[k] : k \in 1..Len(seq)}

\* C11: after any sequence of insert and clear operations,
\* lookup(reverse_lookup(i)) = i for every i < size() and
\* reverse_lookup(lookup(k)) = k for every key present; the distinct keys hold
\* the indices 0, 1, 2, ... in the order of their first insertion since the
\* last clear; size() is the number of distinct keys inserted since then; and
\* an insert of a key already present changes neither size() nor any index.
C11_IndexMapBijection ==
  /\ \A idx \in 0..(size - 1) :
       /\ ~reverse_lookup(idx).throws
       /\ ~lookup(reverse_lookup(idx).value).throws
       /\ lookup(reverse_lookup(idx).value).value = idx
  /\ \A key \in DOMAIN k2i_ :
       /\ ~lookup(key).throws
       /\ ~reverse_lookup(lookup(key).value).throws
       /\ reverse_lookup(lookup(key).value).value = key
  /\ i2k_ = FirstOccurrences(inserted, Len(inserted))
  /\ size = Cardinality(Distinct(inserted))
  /\ (result.op = "insert" /\ result.arg \in DOMAIN before[1]) =>
       <<k2i_, i2k_>> = before

\* three distinct keys went in, the last insert being of a key already there
C11_Witness ==
  /\ size = 3
  /\ Len(inserted) = 4
  /\ result.op = "insert"
  /\ result.arg \in DOMAIN before[1]
  /\ ops = MaxOps

\* C12: after any sequence of insert and clear operations, has(k) is true
\* exactly for the keys inserted since the last clear; lookup of an absent key
\* and reverse_lookup(i) with i >= size() throw, and only those do; a lookup
\* that throws leaves the map as it was and does not insert the key.
C12_HasAndFailures ==
  /\ \A key \in Keys : has(key) <=> key \in Distinct(inserted)
  /\ \A key \in Keys : lookup(key).throws <=> key \notin Distinct(inserted)
  /\ \A idx \in 0..MaxKeys : reverse_lookup(idx).throws <=> idx >= size
  /\ result.op = "has" => result.value = (result.arg \in Distinct(inserted))
  /\ result.op = "lookup" =>
       /\ result.throws <=> result.arg \notin Distinct(inserted)
       /\ result.throws => (<<k2i_, i2k_>> = before /\ ~has(result.arg))
  /\ result.op = "reverse_lookup" => (result.throws <=> result.arg >= size)

\* a lookup of an absent key has thrown on a map that holds two other keys
C12_Witness ==
  /\ result.op = "lookup"
  /\ result.throws
  /\ size = 2
  /\ result.arg \notin Distinct(inserted)

\* ------------------------------------------------ AliasSampler properties
Constructing == spc \in {"check", "step5", "step6", "step7"}

\* what is left to do of the construction: every step of it lowers this number
BuildMeasure ==
  CASE spc = "check" -> 4 + 2 * n_
    [] spc = "step5" -> 3 + 2 * (Len(small) + Len(large))
    [] spc = "step6" -> 2 + Len(small) + Len(large)
    [] spc = "step7" -> 1 + Len(small)
    [] OTHER -> 0

ValidProbs ==
  /\ \A k \in 1..Len(probs) : ~Less(probs[k], Real(0))
  /\ ~Less(Accumulate(probs, 1), Frac(9999, 10000))
  /\ ~Less(Frac(10001, 10000), Accumulate(probs, 1))

C13_Verdict ==
  /\ spc = "failed" => ~ValidProbs
  /\ spc \in {"step5", "step6", "step7", "ready"} => ValidProbs
  /\ probs = <<>> => spc \in {"check", "failed"}

RECURSIVE AliasMassFrom(_, _)
AliasMassFrom(c, b) ==
  IF b >= n_ THEN Real(0)
  ELSE Add(IF b # c /\ alias_[b + 1] = c
           THEN Sub(Real(1), prob_[b + 1]) ELSE Real(0),
           AliasMassFrom(c, b + 1))

SampleMass(c) == Add(prob_[c + 1], AliasMassFrom(c, 0))

\* C14: for a valid vector p of length n whose entries sum to 1, the table
\* init_alias_table builds represents p exactly: for each class i,
\* (threshold[i] + the sum of 1 - threshold[b] over the buckets b # i with
\* alias[b] = i) / n = p_i; every threshold is in [0, 1] and every alias in
\* [0, n); and sample() returns the bucket drawn if r <= threshold[bucket] and
\* its alias otherwise, a class of [0, n) either way.
C14_TableRepresentsProbs ==
  (spc = "ready" /\ Accumulate(probs, 1) = Real(1)) =>
    /\ \A c \in 0..(n_ - 1) :
         /\ Div(SampleMass(c), Real(n_)) = probs[c + 1]
         /\ ~Less(prob_[c + 1], Real(0))
         /\ ~Less(Real(1), prob_[c + 1])
         /\ alias_[c + 1] \in 0..(n_ - 1)
    /\ nsamples > 0 =>
         /\ sampled.value \in 0..(n_ - 1)
         /\ sampled.value = IF ~Less(prob_[sampled.bucket + 1], sampled.r)
                            THEN sampled.bucket
                            ELSE alias_[sampled.bucket + 1]

\* a table for three classes with two thresholds strictly between 0 and 1 is
\* ready, and a sample has come out as the alias of its bucket
C14_Witness ==
  /\ spc = "ready"
  /\ Accumulate(probs, 1) = Real(1)
  /\ n_ = 3
  /\ Cardinality({b \in 1..n_ : Less(Real(0), prob_[b]) /\ Less(prob_[b], Real(1))}) = 2
  /\ nsamples > 0
  /\ sampled.value # sampled.bucket

\* C29: sample() on a table built from a valid vector returns a class of
\* [0, n) whose probability is not 0, whatever the bucket and the uniform value
\* r of [0, 1) drawn, r = 0 included.
C29_NeverZeroProbability ==
  (spc = "ready" /\ nsamples > 0) =>
    /\ sampled.value \in 0..(n_ - 1)
    /\ probs[sampled.value + 1] # Real(0)

\* the same for every draw with r > 0
C29_PositiveDraws ==
  (spc = "ready" /\ nsamples > 0 /\ Less(Real(0), sampled.r)) =>
    /\ sampled.value \in 0..(n_ - 1)
    /\ probs[sampled.value + 1] # Real(0)

\* ---------------------------------------------------- parseline properties
\* the line without its end of line
Content(str) ==
  IF str # <<>> /\ str[Len(str)] = NL THEN SubSeq(str, 1, Len(str) - 1)
  ELSE str

\* the tokens of a line: its maximal runs of bytes other than the space, from
\* left to right
TokenStarts(c) == {b \in 1..Len(c) : c[b] # SP /\ (b = 1 \/ c[b - 1] = SP)}
TokenAt(c, b) ==
  LET last == CHOOSE z \in b..Len(c) :
                /\ \A k \in b..z : c[k] # SP
                /\ (z = Len(c) \/ c[z + 1] = SP)
  IN  SubSeq(c, b, last)

RECURSIVE TokensIn(_, _)
TokensIn(c, starts) ==
  IF starts = {} THEN <<>>
  ELSE LET b == CHOOSE x \in starts : \A y \in starts : x <= y
       IN  <<TokenAt(c, b)>> \o TokensIn(c, starts \ {b})

Tokens(c) == TokensIn(c, TokenStarts(c))

\* the position of a word in the vocabulary, counted from 0
InVocab(word) == \E k \in 1..Len(ordered_vocab) : ordered_vocab[k] = word
IdOf(word) == (CHOOSE k \in 1..Len(ordered_vocab) : ordered_vocab[k] = word) - 1

\* the ids of a sequence of tokens: a word of the vocabulary gets its id, any
\* other token is dropped if discard is set and gets the id of UNK otherwise
RECURSIVE Resolve(_, _)
Resolve(tokens, k) ==
  IF k > Len(tokens) THEN <<>>
  ELSE (IF InVocab(tokens[k]) THEN <<IdOf(tokens[k])>>
        ELSE IF discard_ THEN <<>>
        ELSE <<IdOf(UNK)>>) \o Resolve(tokens, k + 1)

\* every id of the sentence parseline returned is a row of the tables and a
\* class of filter_probs and of the sampler
ParsedInRange ==
  ppc = "parsed" =>
    /\ ntable = Len(ordered_vocab)
    /\ \A k \in 1..Len(parsed) : parsed[k] \in 0..(ntable - 1)

\* C19: the sentence a reader delivers for a line that ends with an end of
\* line holds ids in [0, V) only, and is the sequence of the ids of the line's
\* tokens in the order of the line: the id of a token found in the vocabulary,
\* nothing for an unknown token if discard is set and the id of UNK otherwise.
C19_SentenceResolvesTokens ==
  (ppc = "parsed" /\ raw[Len(raw)] = NL) =>
    /\ \A k \in 1..Len(parsed) : parsed[k] \in 0..(Len(ordered_vocab) - 1)
    /\ parsed = Resolve(Tokens(Content(raw)), 1)

\* parseline(line) on the vocabulary of the state: the ids of the words of
\* split(line) from the k-th on
RECURSIVE PushFrom(_, _)
PushFrom(words, k) ==
  IF k > Len(words) THEN <<>>
  ELSE PushToken(words[k]).out \o PushFrom(words, k + 1)

\* what the other reader passes to parseline for the same bytes of the file
OtherReaderLine == IF via_readlines THEN raw ELSE RemoveSuffix(raw)

\* C28: the streaming and the in-memory reader parse every line that ends
\* with an end of line to the same sentence, its last token included.
C28_ReadersAgree ==
  (ppc = "parsed" /\ raw[Len(raw)] = NL) =>
    parsed = PushFrom(split(OtherReaderLine), 1)

\* ------------------------------------------------------ Trainer properties
\* no value has been taken from any generator
BeforeAnyDraw == \A t \in DOMAIN gens_ : gens_[t].n = 0 /\ neg_samplers_[t].n = 0

\* C15: after the construction of the Trainer and before any draw, the
\* samplers of two different threads are in different generator states, each
\* seeded with its own seed, as the generators gens_ of the threads are.
C15_SamplersSeededApart ==
  BeforeAnyDraw =>
    \A t, u \in DOMAIN neg_samplers_ :
      t # u => /\ gens_[t] # gens_[u]
               /\ neg_samplers_[t].seed # neg_samplers_[u].seed
               /\ neg_samplers_[t] # neg_samplers_[u]

\* C20: two runs on the same corpus, with the same parameters, thread count
\* and seeds, end with the same embedding tables.
C20_RunsAgree ==
  pc = "finished" => <<table_, ctx_>> = first

\* ---------------------------------------------------- worker id properties
\* the calls of the work function that are running: thread t is in f(i_, tid)
InWork(t) == wpc[t] = "work"

\* C27: during a dispatch no two calls of the work function that run at the
\* same time carry the same worker id, and every worker id is smaller than the
\* thread count the Trainer was built with, so an entry of a per-thread vector
\* is never used by two threads at once.
C27_WorkerIdsApart ==
  /\ \A t \in Workers : \A u \in Workers :
       (t # u /\ InWork(t) /\ InWork(u)) => wtid[t] # wtid[u]
  /\ \A t \in Workers : InWork(t) => wtid[t] \in 0..(ParamsThreads - 1)

C27_Witness ==
  /\ num_threads = MaxThreads
  /\ \A t \in Workers : InWork(t)
  /\ \E t \in Workers : wtid[t] = ParamsThreads - 1

\* ------------------------------------------------- Trainer::train properties
Max(a, b) == IF a > b THEN a ELSE b
Min(a, b) == IF a < b THEN a ELSE b

\* C25: in Trainer::train every update of a call on the retained sentence s
\* gets a half-width k in [1, ctxs] and the window L = max(0, c - k),
\* R = min(|s|, c + k + 1), so that 0 <= L <= c < R <= |s|; the updates are
\* dispatched one per retained position, in increasing order of c, and train
\* returns |s|.
C25_WindowsAndOrder ==
  /\ \A j \in 1..Len(updates) :
       LET u == updates[j]
       IN  /\ u.center_idx = j - 1
           /\ u.ctxs \in 1..ctxs
           /\ u.left = Max(0, u.center_idx - u.ctxs)
           /\ u.right = Min(Len(sent), u.center_idx + u.ctxs + 1)
           /\ 0 <= u.left /\ u.left <= u.center_idx
           /\ u.center_idx < u.right /\ u.right <= Len(sent)
  /\ tpc = "center" => Len(updates) = center_idx
  /\ tpc = "update" =>
       /\ Len(updates) = center_idx + 1
       /\ left = updates[Len(updates)].left
       /\ right = updates[Len(updates)].right
       /\ \A q \in left..(right - 1) : q + 1 \in DOMAIN sent
  /\ (tpc = "idle" /\ ntrain >= 1) =>
       /\ remaining_toks = Len(sent)
       /\ Len(updates) = Len(sent)

\* a call on a retained sentence of three words has returned; its last window
\* was cut on the right and began after the first word
C25_Witness ==
  /\ tpc = "idle"
  /\ ntrain >= 1
  /\ remaining_toks = MaxSentLen
  /\ updates[MaxSentLen].left >= 1
  /\ updates[MaxSentLen].right < MaxSentLen + updates[MaxSentLen].ctxs
  /\ \E j \in 1..Len(updates) : updates[j].ctxs = MaxCtxs

\* ------------------------------------ subsampling probability properties
\* T: the total count of the words of the vocabulary, from word w on
RECURSIVE TotalFrom(_)
TotalFrom(w) ==
  IF w >= Len(ordered_vocab) THEN 0 ELSE CountOf(w) + TotalFrom(w + 1)

TotalCount == TotalFrom(0)

\* 1 - sqrt(t * T / f) - t * T / f
Shape(t, T, f) ==
  LET x == Div(Mul(t, Real(T)), Real(f))
  IN  Sub(Sub(Real(1), sqrt(x)), x)

InUnitInterval(x) ==
  /\ IsFinite(x)
  /\ ~Less(x, Real(0))
  /\ ~Less(Real(1), x)

\* C21: filter_probs, as passed to the Trainer, has length V and every entry
\* is in [0, 1], for every word and every count, the UNK entry of count 0
\* included.
C21_FilterProbsAreProbabilities ==
  fpc = "passed" =>
    /\ Len(filter_probs_) = Len(ordered_vocab)
    /\ \A w \in 1..Len(filter_probs_) : InUnitInterval(filter_probs_[w])

\* the length, and the upper end of the interval for the words with a count
C21_LengthAndUpperEnd ==
  fpc = "passed" =>
    /\ Len(filter_probs_) = Len(ordered_vocab)
    /\ \A w \in 1..Len(filter_probs_) :
         CountOf(w - 1) > 0 =>
           (IsFinite(filter_probs_[w]) /\ Less(filter_probs_[w], Real(1)))

\* the words the formula is defined for: those with a count
Counted == {w \in 0..(Len(ordered_vocab) - 1) : CountOf(w) > 0}

NoLater(a, b) == a.e < b.e \/ (a.e = b.e /\ a.n <= b.n)

\* C30: for a configuration that passed the validation, with min_lr <= init_lr
\* and total_sentences the number of sentences of the corpus, every learning
\* rate passed to train is in [min_lr, init_lr], and the rate does not
\* increase as (epoch, i + global_i) grows.
C30_LrWithinBoundsAndFalling ==
  (total_sentences = corpus_sentences /\ ~Less(init_lr, min_lr)) =>
    /\ \A a \in lrs : ~Less(a.lr, min_lr) /\ ~Less(init_lr, a.lr)
    /\ \A a \in lrs : \A b \in lrs : NoLater(a, b) => ~Less(a.lr, b.lr)

\* the same without the lower bound, and with it when the epochs run end no
\* later than the schedule
C30_FallingFromInit ==
  (total_sentences = corpus_sentences /\ ~Less(init_lr, min_lr)) =>
    /\ \A a \in lrs : ~Less(init_lr, a.lr)
    /\ \A a \in lrs : \A b \in lrs : NoLater(a, b) => ~Less(a.lr, b.lr)
    /\ start_lr_schedule_epoch + epochs <= max_lr_schedule_epochs =>
         \A a \in lrs : ~Less(a.lr, min_lr)

\* ------------------------------------------------ shared row properties
\* the gradients of the threads that update the row of word w, summed
GradOn(w, t) == IF source[t] = w THEN grad[t] ELSE Zero
GradSum(w) == VAdd(GradOn(w, 1), GradOn(w, 2))

\* C26: the rows are read and written with no lock and no atomic operation.
\* No thread ever waits for another or fails: its next step can always be
\* taken. When two threads update the same row and one reads it between the
\* read and the write of the other, the row ends as the original less the
\* gradient of the thread that wrote last, the other gradient being lost;
\* otherwise every row ends as the original less all gradients applied to it.
C26_LostUpdateNoBlocking ==
  /\ \A t \in Racers : rpc[t] = "load" => ENABLED RaceLoad(t)
  /\ \A t \in Racers : rpc[t] = "store" => ENABLED RaceStore(t)
  /\ (\A t \in Racers : rpc[t] = "done") =>
       \A w \in Words :
         IF overlapped /\ \A t \in Racers : source[t] = w
         THEN table_[w] = VSub(table_orig[w], grad[stores[Len(stores)]])
         ELSE table_[w] = VSub(table_orig[w], GradSum(w))

\* both threads have updated the same row with gradients other than zero, and
\* the row holds the gradient of the second writer only
C26_Witness ==
  /\ \A t \in Racers : rpc[t] = "done"
  /\ \A t \in Racers : source[t] = source[1] /\ grad[t] # Zero
  /\ overlapped
  /\ table_[source[1]] = VSub(table_orig[source[1]], grad[stores[Len(stores)]])
  /\ table_[source[1]] # VSub(table_orig[source[1]], GradSum(source[1]))

====
